---- MODULE Spec2Model ----
(***************************************************************************)
(* Story streaming routes (api/routes_story) and story mutations           *)
(* (api/resolver_mutation_story): HTTP requests run concurrently with one  *)
(* another and with a mutation; the mutation's writes become visible to    *)
(* readers when its transaction commits.                                   *)
(***************************************************************************)
EXTENDS Integers, Sequences, FiniteSets, TLC

\* ---------------------------------------------------------------- bounds
NumReqs == 2
MaxStories == 2
MaxFiles == 3
MaxIds == 2
MaxMarkers == 2
MaxTags == 2

Reqs == 1..NumReqs
Stories == 1..MaxStories
Files == 1..MaxFiles
Markers == 1..MaxMarkers
Tags == 1..MaxTags

\* ------------------------------------------------------------- constants
NoFile == 0
NoStory == 0
NoMarker == 0
NoStatus == 0
StatusBadRequest == 400
StatusNotFound == 404
StatusInternalServerError == 500
StatusServiceUnavailable == 503

Matroska == "matroska"
Mp4 == "mp4"
NoContainer == ""

StreamTypeMP4 == "MP4"
StreamTypeWEBM == "WEBM"
StreamTypeMKV == "MKV"
StreamTypeHLS == "HLS"
StreamTypeDASHVideo == "DASH-video"
StreamTypeDASHAudio == "DASH-audio"

NamingAlgorithms == {"oshash", "md5"}
Resolutions == {"", "720"}
Segments == {"0", "1"}
\* the start form values, as their characters: absent, 5, 1.5, and three
\* that are not numbers
StartParams == {<<>>, <<"5">>, <<"1", ".", "5">>, <<"x">>, <<"5", "x">>, <<".">>}
NoHash == <<>>

\* the artifacts generated for a story and for a marker
GeneratedKinds == {"preview.mp4", "preview.webp", "thumbs.vtt", "sprite.jpg", "heatmap.png"}
MarkerKinds == {"marker.mp4", "marker.webp", "marker.jpg"}

VARIABLES
    liveTranscode,  \* manager.GetInstance().StreamManager != nil
    namingAlgo,     \* config.GetVideoFileNamingAlgorithm()
    db,             \* committed stories: id -> [exists, files, primary]
    txdb,           \* the stories as seen inside the open write transaction
    disk,           \* generated files present on disk, by naming hash
    marked,         \* files the current fileDeleter has marked for deletion
    markers,        \* committed story markers: id -> [exists, story, seconds]
    txmarkers,      \* the markers as seen inside the open write transaction
    cache,          \* stored segments: [hash, type, res, seg, file]
    req,            \* per request slot: position, loaded story, response
    mut             \* the mutation in progress (or the last one returned)

vars == <<liveTranscode, namingAlgo, db, txdb, markers, txmarkers, disk, marked, cache, req, mut>>

\* ------------------------------------------------------------ strconv
Digits == <<"0", "1", "2", "3", "4", "5", "6", "7", "8", "9">>

IsDigit(c) == \E d \in 1..10 : Digits[d] = c

DigitVal(c) == (CHOOSE d \in 1..10 : Digits[d] = c) - 1

RECURSIVE AtoiVal(_)
AtoiVal(s) ==
    IF s = <<>> THEN 0
    ELSE 10 * AtoiVal(SubSeq(s, 1, Len(s) - 1)) + DigitVal(s[Len(s)])

\* strconv.Atoi on a path or input parameter given as its characters: an
\* optional sign, then one or more decimal digits
Atoi(s) ==
    LET signed == s # <<>> /\ s[1] \in {"+", "-"}
        digits == IF signed THEN Tail(s) ELSE s
    IN  IF digits = <<>> \/ \E i \in 1..Len(digits) : ~IsDigit(digits[i])
        THEN [err |-> TRUE, val |-> 0]
        ELSE [err |-> FALSE,
              val |-> IF signed /\ s[1] = "-" THEN 0 - AtoiVal(digits) ELSE AtoiVal(digits)]

\* the decimal form of a small id, as a client writes it
Itoa(n) == IF n < 10 THEN <<Digits[n + 1]>> ELSE <<Digits[(n \div 10) + 1], Digits[(n % 10) + 1]>>

\* the id parameters clients send: every story id, an unused id, a non-integer
IdParams == {Itoa(s) : s \in 1..(MaxStories + 1)} \cup {<<"x">>}

\* the ids of the stories, as clients write them
StoryIdParams == {Itoa(s) : s \in Stories}

\* the storyId path parameters: those, a negative integer and the empty string
PathIdParams == IdParams \cup {<<"-", "1">>, <<>>}

\* strconv.ParseFloat(startTime, 64) for decimal notation, in tenths of a
\* second: digits with at most one point and at least one digit, or 0 with
\* an error
ParseFloat(s) ==
    LET points == {i \in 1..Len(s) : s[i] = "."}
        point == IF points = {} THEN Len(s) + 1 ELSE CHOOSE i \in points : TRUE
        whole == SubSeq(s, 1, point - 1)
        frac == SubSeq(s, point + 1, Len(s))
    IN  IF \/ Cardinality(points) > 1
           \/ whole \o frac = <<>>
           \/ \E i \in 1..Len(s) : ~IsDigit(s[i]) /\ s[i] # "."
        THEN [err |-> TRUE, val |-> 0]
        ELSE [err |-> FALSE,
              val |-> 10 * AtoiVal(whole) + (IF frac = <<>> THEN 0 ELSE DigitVal(frac[1]))]

\* ------------------------------------------------------------ the catalog
\* files 1 and 2 belong to story 1, every other file to story 2
FileOwner(f) == IF f <= 2 THEN 1 ELSE 2

OwnedFiles(s) == {f \in Files : FileOwner(f) = s}

\* the container recorded for a file: every third file is MP4, the others Matroska
FileFormat(f) == IF f % 3 = 0 THEN Mp4 ELSE Matroska

MinOf(S) == CHOOSE x \in S : \A y \in S : x <= y

NoStoryRow == [exists |-> FALSE, files |-> {}, primary |-> NoFile, title |-> ""]

StoryRow(fs) ==
    [exists |-> TRUE, files |-> fs, primary |-> IF fs = {} THEN NoFile ELSE MinOf(fs),
     title |-> "t"]

\* Story.GetHash(algo): the naming hash of the story's primary file
GetHash(file, algo) == IF file = NoFile THEN NoHash ELSE <<algo, file>>

\* manager.GetVideoFileContainer(pf): the recorded container, or the empty
\* container together with an error
GetVideoFileContainer(f, probeErr) == IF probeErr THEN NoContainer ELSE FileFormat(f)

\* story marker m as first created: markers alternate between the stories,
\* seconds are kept in tenths of a second
MarkerRow(m) ==
    [exists |-> TRUE, story |-> ((m - 1) % MaxStories) + 1, seconds |-> 15 * m,
     primaryTag |-> 1, tags |-> {}]

\* int(marker.Seconds)
IntSeconds(tenths) == tenths \div 10

\* the generated files of a marker: <<kind, story hash, whole seconds>>
MarkerFilePaths(row, seconds) ==
    IF row.primary = NoFile THEN {}
    ELSE {<<kind, GetHash(row.primary, namingAlgo), seconds>> : kind \in MarkerKinds}

MarkerPaths(row, seconds) == MarkerFilePaths(row, IntSeconds(seconds))

\* ------------------------------------------------------------ requests
NoOpts == [type |-> "", file |-> NoFile, res |-> "", start |-> 0, hash |-> NoHash, seg |-> ""]

\* what a static handler wrote: the status, the body served ("file",
\* "placeholder", "vtt" or none), the path served from and the Content-Type
\* header it set; the marker and the caption it found
NoResp ==
    [status |-> NoStatus, served |-> "", path |-> <<>>, ctype |-> "",
     marker |-> NoMarker, caption |-> 0]

\* the parameters and the environment's answers a static handler ran with
NoArgs ==
    [id |-> <<>>, lookup |-> "", lang |-> "", ext |-> "", readErr |-> FALSE, convErr |-> FALSE,
     start |-> <<>>]

IdleReq ==
    [pc |-> "idle", param |-> <<>>, loadErr |-> FALSE, story |-> NoStory, file |-> NoFile,
     route |-> "", status |-> NoStatus, call |-> "none", opts |-> NoOpts, job |-> FALSE,
     container |-> NoContainer, hit |-> NoFile, resp |-> NoResp, args |-> NoArgs]

\* what a handler decided: the status it wrote itself (none when it returns
\* without writing or leaves the response to the StreamManager) and the
\* StreamManager call it made
Answer(status) == [status |-> status, call |-> "none", opts |-> NoOpts, container |-> NoContainer]

Call(fn, opts) == [status |-> NoStatus, call |-> fn, opts |-> opts, container |-> NoContainer]

\* requests that own a live encoder
Owns(q) == req[q].pc = "streaming" /\ req[q].job

\* the key under which the StreamManager runs one encoder
JobKey(o) == <<o.file, o.type, o.res, o.seg>>

\* the key under which a segment is stored
CacheKey(o) == <<o.hash, o.type, o.res, o.seg>>

EntryKey(e) == <<e.hash, e.type, e.res, e.seg>>

\* ------------------------------------------------------------ StoryCtx
\* the middleware of every /{storyId} route: parse the id, load the story and
\* its primary file in a read transaction, then hand over to the route
\* the request as StoryCtx leaves it for parameter p
StoryCtxOutcome(p, found, loadErr) ==
    LET a == Atoi(p)
        seen == [IdleReq EXCEPT !.param = p]
    IN  IF a.err
        THEN [seen EXCEPT !.pc = "done", !.route = "StoryCtx", !.status = StatusBadRequest]
        ELSE IF ~found
        THEN [seen EXCEPT !.pc = "done", !.route = "StoryCtx", !.status = StatusNotFound]
        ELSE IF loadErr
        THEN [seen EXCEPT !.pc = "done", !.route = "StoryCtx", !.status = StatusNotFound,
                          !.loadErr = TRUE]
        ELSE [seen EXCEPT !.pc = "loaded", !.story = a.val, !.file = db[a.val].primary]

\* mutant: a story whose primary file failed to load is handed on
StoryCtx_LoadErrorIgnored(r, params, loadErrs) ==
    /\ req[r].pc = "idle"
    /\ \E p \in params, loadErr \in loadErrs :
          LET a == Atoi(p)
              found == ~a.err /\ a.val \in Stories /\ db[a.val].exists
              out == StoryCtxOutcome(p, found, FALSE)
          IN  req' = [req EXCEPT ![r] = [out EXCEPT !.loadErr = found /\ loadErr]]
    /\ UNCHANGED <<liveTranscode, namingAlgo, markers, txmarkers, db, txdb, disk, marked, cache, mut>>

\* StoryCtx for a storyId among params, the primary file failing to load or
\* not as loadErrs allows
StoryCtxFor(r, params, loadErrs) ==
    /\ req[r].pc = "idle"
    /\ \E p \in params, loadErr \in loadErrs :
          LET a == Atoi(p)
              found == ~a.err /\ a.val \in Stories /\ db[a.val].exists
          IN  req' = [req EXCEPT ![r] = StoryCtxOutcome(p, found, loadErr)]
    /\ UNCHANGED <<liveTranscode, namingAlgo, markers, txmarkers, db, txdb, disk, marked, cache, mut>>

StoryCtx(r) == StoryCtxFor(r, PathIdParams, BOOLEAN)

\* StoryCtx for the id of a story, whose primary file loads
StoryCtxOk(r) == StoryCtxFor(r, StoryIdParams, {FALSE})

\* ------------------------------------------------------------ StreamManager
\* ServeTranscode: stream the encoder's output; a request for a key that
\* already has a live encoder attaches to it instead of starting another
ServeTranscode(r, base) ==
    req' = [req EXCEPT ![r] =
               [base EXCEPT !.pc = "streaming",
                            !.job = ~\E q \in Reqs : Owns(q) /\ JobKey(req[q].opts) = JobKey(base.opts)]]

\* ServeManifest: the manifest is generated fresh for every request
ServeManifest(r, base) ==
    req' = [req EXCEPT ![r] = [base EXCEPT !.pc = "done"]]

\* mutant: every cache miss starts an encoder
ServeSegment_AlwaysStart(r, base) ==
    IF \E e \in cache : EntryKey(e) = CacheKey(base.opts)
    THEN LET e == CHOOSE x \in cache : EntryKey(x) = CacheKey(base.opts)
         IN  req' = [req EXCEPT ![r] = [base EXCEPT !.pc = "done", !.hit = e.file]]
    ELSE req' = [req EXCEPT ![r] = [base EXCEPT !.pc = "streaming", !.job = TRUE]]

\* ServeSegment: a stored segment is served from the cache; on a miss the
\* request starts the encoder for the key, or attaches to the live one
ServeSegment(r, base) ==
    IF \E e \in cache : EntryKey(e) = CacheKey(base.opts)
    THEN LET e == CHOOSE x \in cache : EntryKey(x) = CacheKey(base.opts)
         IN  req' = [req EXCEPT ![r] = [base EXCEPT !.pc = "done", !.hit = e.file]]
    ELSE req' = [req EXCEPT ![r] =
               [base EXCEPT !.pc = "streaming",
                            !.job = ~\E q \in Reqs : Owns(q) /\ JobKey(req[q].opts) = JobKey(base.opts)]]

\* manager.KillRunningStreams(story, algo): every stream of the story ends
KillRunningStreams(s) ==
    [q \in Reqs |-> IF req[q].pc = "streaming" /\ req[q].story = s
                    THEN [req[q] EXCEPT !.pc = "done", !.job = FALSE]
                    ELSE req[q]]

\* ------------------------------------------------------------ handlers
\* mutant: the primary file is looked at before the StreamManager
streamTranscode_PrimaryFirst(r, streamType, start, resolution) ==
    IF req[r].file = NoFile THEN Answer(NoStatus)
    ELSE IF ~liveTranscode THEN Answer(StatusServiceUnavailable)
    ELSE Call("ServeTranscode",
              [type |-> streamType, file |-> req[r].file, res |-> resolution,
               start |-> ParseFloat(start).val, hash |-> NoHash, seg |-> ""])

\* mutant: a start value that does not parse is answered 400
streamTranscode_StartRequired(r, streamType, start, resolution) ==
    IF ~liveTranscode THEN Answer(StatusServiceUnavailable)
    ELSE IF req[r].file = NoFile THEN Answer(NoStatus)
    ELSE IF ParseFloat(start).err THEN Answer(StatusBadRequest)
    ELSE Call("ServeTranscode",
              [type |-> streamType, file |-> req[r].file, res |-> resolution,
               start |-> ParseFloat(start).val, hash |-> NoHash, seg |-> ""])

streamTranscode(r, streamType, start, resolution) ==
    IF ~liveTranscode THEN Answer(StatusServiceUnavailable)
    ELSE IF req[r].file = NoFile THEN Answer(NoStatus)
    ELSE Call("ServeTranscode",
              [type |-> streamType, file |-> req[r].file, res |-> resolution,
               start |-> ParseFloat(start).val, hash |-> NoHash, seg |-> ""])

\* mutant: the container is detected but not compared
StreamMKVHandler_NoContainerCheck(r, probeErr, start, resolution) ==
    IF req[r].file = NoFile THEN Answer(NoStatus)
    ELSE LET container == GetVideoFileContainer(req[r].file, probeErr)
         IN  [streamTranscode(r, StreamTypeMKV, start, resolution) EXCEPT !.container = container]

\* StreamMKV once the container detection has answered
StreamMKVHandler(r, probeErr, start, resolution) ==
    IF req[r].file = NoFile THEN Answer(NoStatus)
    ELSE LET container == GetVideoFileContainer(req[r].file, probeErr)
         IN  IF container # Matroska
             THEN [Answer(StatusBadRequest) EXCEPT !.container = container]
             ELSE [streamTranscode(r, StreamTypeMKV, start, resolution) EXCEPT !.container = container]

\* mutant: a story without primary file is an internal error
streamManifest_NoFileIsError(r, streamType, resolution) ==
    IF ~liveTranscode THEN Answer(StatusServiceUnavailable)
    ELSE IF req[r].file = NoFile THEN Answer(StatusInternalServerError)
    ELSE Call("ServeManifest",
              [type |-> streamType, file |-> req[r].file, res |-> resolution,
               start |-> 0, hash |-> NoHash, seg |-> ""])

streamManifest(r, streamType, resolution) ==
    IF ~liveTranscode THEN Answer(StatusServiceUnavailable)
    ELSE IF req[r].file = NoFile THEN Answer(NoStatus)
    ELSE Call("ServeManifest",
              [type |-> streamType, file |-> req[r].file, res |-> resolution,
               start |-> 0, hash |-> NoHash, seg |-> ""])

\* mutant: the primary file is looked at before the StreamManager
streamSegment_PrimaryFirst(r, streamType, segment, resolution) ==
    IF req[r].file = NoFile THEN Answer(NoStatus)
    ELSE IF ~liveTranscode THEN Answer(StatusServiceUnavailable)
    ELSE Call("ServeSegment",
              [type |-> streamType, file |-> req[r].file, res |-> resolution,
               start |-> 0, hash |-> GetHash(req[r].file, namingAlgo), seg |-> segment])

\* mutant: the segment is keyed by the story's first file, not by its hash
streamSegment_FirstFileHash(r, streamType, segment, resolution) ==
    IF ~liveTranscode THEN Answer(StatusServiceUnavailable)
    ELSE IF req[r].file = NoFile THEN Answer(NoStatus)
    ELSE Call("ServeSegment",
              [type |-> streamType, file |-> req[r].file, res |-> resolution,
               start |-> 0, hash |-> GetHash(MinOf(OwnedFiles(req[r].story)), namingAlgo),
               seg |-> segment])

streamSegment(r, streamType, segment, resolution) ==
    IF ~liveTranscode THEN Answer(StatusServiceUnavailable)
    ELSE IF req[r].file = NoFile THEN Answer(NoStatus)
    ELSE Call("ServeSegment",
              [type |-> streamType, file |-> req[r].file, res |-> resolution,
               start |-> 0, hash |-> GetHash(req[r].file, namingAlgo), seg |-> segment])

\* the handler's answer becomes the request's response; a StreamManager call
\* is carried out
Serve(r, route, args, out) ==
    LET base == [req[r] EXCEPT !.route = route, !.status = out.status, !.call = out.call,
                               !.opts = out.opts, !.container = out.container, !.args = args]
    IN  /\ CASE out.call = "ServeTranscode" -> ServeTranscode(r, base)
             [] out.call = "ServeManifest" -> ServeManifest(r, base)
             [] out.call = "ServeSegment" -> ServeSegment(r, base)
             [] OTHER -> req' = [req EXCEPT ![r] = [base EXCEPT !.pc = "done"]]
        /\ UNCHANGED <<liveTranscode, namingAlgo, markers, txmarkers, db, txdb, disk, marked, cache, mut>>

StreamMp4(r, start, resolution) ==
    /\ req[r].pc = "loaded"
    /\ Serve(r, "stream.mp4", [NoArgs EXCEPT !.start = start],
             streamTranscode(r, StreamTypeMP4, start, resolution))

StreamWebM(r, start, resolution) ==
    /\ req[r].pc = "loaded"
    /\ Serve(r, "stream.webm", [NoArgs EXCEPT !.start = start],
             streamTranscode(r, StreamTypeWEBM, start, resolution))

StreamMKV(r, start, resolution) ==
    /\ req[r].pc = "loaded"
    /\ \E probeErr \in BOOLEAN :
          Serve(r, "stream.mkv", [NoArgs EXCEPT !.start = start],
                StreamMKVHandler(r, probeErr, start, resolution))

StreamHLS(r, resolution) ==
    /\ req[r].pc = "loaded"
    /\ Serve(r, "stream.m3u8", NoArgs,
             streamManifest(r, StreamTypeHLS, resolution))

StreamDASH(r, resolution) ==
    /\ req[r].pc = "loaded"
    /\ Serve(r, "stream.mpd", NoArgs,
             streamManifest(r, StreamTypeDASHVideo, resolution))

StreamHLSSegment(r, segment, resolution) ==
    /\ req[r].pc = "loaded"
    /\ Serve(r, "stream.m3u8/segment", NoArgs,
             streamSegment(r, StreamTypeHLS, segment, resolution))

StreamDASHVideoSegment(r, segment, resolution) ==
    /\ req[r].pc = "loaded"
    /\ Serve(r, "stream.mpd/segment_v", NoArgs,
             streamSegment(r, StreamTypeDASHVideo, segment, resolution))

StreamDASHAudioSegment(r, segment, resolution) ==
    /\ req[r].pc = "loaded"
    /\ Serve(r, "stream.mpd/segment_a", NoArgs,
             streamSegment(r, StreamTypeDASHAudio, segment, resolution))

SegmentedTypes == {StreamTypeHLS, StreamTypeDASHVideo, StreamTypeDASHAudio}

\* the stream of a request ends: the encoder exits or the client goes away.
\* A completed segment encode is written through to the cache unless the
\* write fails.
StreamEnd(r, stored) ==
    /\ req[r].pc = "streaming"
    /\ cache' = IF /\ stored
                   /\ req[r].job
                   /\ req[r].opts.type \in SegmentedTypes
                   /\ ~\E e \in cache : EntryKey(e) = CacheKey(req[r].opts)
                THEN cache \cup {[hash |-> req[r].opts.hash, type |-> req[r].opts.type,
                                     res |-> req[r].opts.res, seg |-> req[r].opts.seg,
                                     file |-> req[r].opts.file]}
                   ELSE cache
    /\ req' = [req EXCEPT ![r] = IdleReq]
    /\ UNCHANGED <<liveTranscode, namingAlgo, markers, txmarkers, db, txdb, disk, marked, mut>>

\* the response of a request that is not streaming has been written
Finish(r) ==
    /\ req[r].pc = "done"
    /\ req' = [req EXCEPT ![r] = IdleReq]
    /\ UNCHANGED <<liveTranscode, namingAlgo, markers, txmarkers, db, txdb, disk, marked, cache, mut>>

\* ------------------------------------------------------------ static routes
\* utils.ServeStaticFile: the file at the path, or 404 when there is none
ServeStaticFile(resp, filepath) ==
    IF filepath \in disk
    THEN [resp EXCEPT !.served = "file", !.path = filepath]
    ELSE [resp EXCEPT !.status = StatusNotFound, !.path = filepath]

\* utils.ServeStaticContent: the bytes given
ServeStaticContent(resp, content) == [resp EXCEPT !.served = content]

\* http.Error
Error(resp, status) == [resp EXCEPT !.status = status]

\* the static handler's response becomes the request's
Respond(r, route, args, resp) ==
    /\ req' = [req EXCEPT ![r] = [@ EXCEPT !.pc = "done", !.route = route, !.status = resp.status,
                                           !.resp = resp, !.args = args]]
    /\ UNCHANGED <<liveTranscode, namingAlgo, markers, txmarkers, db, txdb, disk, marked, cache, mut>>

\* story.GetHash(config.GetInstance().GetVideoFileNamingAlgorithm())
StoryHash(r) == GetHash(req[r].file, namingAlgo)

\* mutant: the preview is refused while live transcoding is disabled
Preview_NeedsStreamManager(r) ==
    /\ req[r].pc = "loaded"
    /\ Respond(r, "preview", NoArgs,
               IF ~liveTranscode THEN Error(NoResp, StatusServiceUnavailable)
               ELSE ServeStaticFile(NoResp, <<"preview.mp4", StoryHash(r), 0>>))

Preview(r) ==
    /\ req[r].pc = "loaded"
    /\ Respond(r, "preview", NoArgs, ServeStaticFile(NoResp, <<"preview.mp4", StoryHash(r), 0>>))

Webp(r) ==
    /\ req[r].pc = "loaded"
    /\ Respond(r, "webp", NoArgs, ServeStaticFile(NoResp, <<"preview.webp", StoryHash(r), 0>>))

InteractiveHeatmap(r) ==
    /\ req[r].pc = "loaded"
    /\ Respond(r, "interactive_heatmap", NoArgs,
               ServeStaticFile(NoResp, <<"heatmap.png", StoryHash(r), 0>>))

\* the hash VttThumbs and VttSprite name the file by: the story's when
\* StoryCtx put one in the context, the storyHash URL parameter otherwise
ContextHash(r, storyHash) == IF req[r].story # NoStory THEN StoryHash(r) ELSE storyHash

VttThumbsHandler(r, storyHash) ==
    ServeStaticFile([NoResp EXCEPT !.ctype = "text/vtt"],
                    <<"thumbs.vtt", ContextHash(r, storyHash), 0>>)

VttSpriteHandler(r, storyHash) ==
    ServeStaticFile(NoResp, <<"sprite.jpg", ContextHash(r, storyHash), 0>>)

\* /{storyId}/vtt/thumbs and /{storyId}/vtt/sprite, behind StoryCtx
VttThumbs(r) ==
    /\ req[r].pc = "loaded"
    /\ Respond(r, "vtt/thumbs", NoArgs, VttThumbsHandler(r, NoHash))

VttSprite(r) ==
    /\ req[r].pc = "loaded"
    /\ Respond(r, "vtt/sprite", NoArgs, VttSpriteHandler(r, NoHash))

\* /{storyHash}_thumbs.vtt and /{storyHash}_sprite.jpg, without StoryCtx
VttThumbsByHash(r, storyHash) ==
    /\ req[r].pc = "idle"
    /\ Respond(r, "vtt/thumbs", [NoArgs EXCEPT !.id = storyHash], VttThumbsHandler(r, storyHash))

VttSpriteByHash(r, storyHash) ==
    /\ req[r].pc = "idle"
    /\ Respond(r, "vtt/sprite", [NoArgs EXCEPT !.id = storyHash], VttSpriteHandler(r, storyHash))

\* ------------------------------------------------------------ marker routes
\* how a read transaction around one lookup can end
LookupOutcomes == {"ok", "error", "cancelled"}

\* storyMarkerFinder.Find in a read transaction, for the storyMarkerId URL
\* parameter (0 when strconv.Atoi fails: its error is dropped)
FindMarker(mparam, lookup) ==
    LET id == Atoi(mparam).val
    IN  IF lookup = "ok" /\ id \in Markers /\ markers[id].exists THEN id ELSE NoMarker

\* the part the three marker handlers share: nothing on a cancelled lookup,
\* 500 on a failed one, 404 without marker
MarkerLookup(mparam, lookup, found) ==
    IF lookup = "cancelled" THEN NoResp
    ELSE IF lookup # "ok" THEN Error(NoResp, StatusInternalServerError)
    ELSE IF FindMarker(mparam, lookup) = NoMarker THEN Error(NoResp, StatusNotFound)
    ELSE found

\* the file if it exists, the placeholder image otherwise
FileOrPlaceholder(resp, filepath) ==
    IF filepath \notin disk
    THEN ServeStaticContent([resp EXCEPT !.ctype = "image/png"], "placeholder")
    ELSE ServeStaticFile(resp, filepath)

StoryMarkerStreamHandler(r, mparam, lookup) ==
    LET m == FindMarker(mparam, lookup)
    IN  MarkerLookup(mparam, lookup,
            ServeStaticFile([NoResp EXCEPT !.marker = m],
                            <<"marker.mp4", StoryHash(r), IntSeconds(markers[m].seconds)>>))

\* mutant: the preview is served without looking whether a marker was found
StoryMarkerPreviewHandler_NoNilCheck(r, mparam, lookup) ==
    LET m == FindMarker(mparam, lookup)
        seconds == IF m = NoMarker THEN 0 ELSE markers[m].seconds
    IN  IF lookup = "cancelled" THEN NoResp
        ELSE IF lookup # "ok" THEN Error(NoResp, StatusInternalServerError)
        ELSE FileOrPlaceholder([NoResp EXCEPT !.marker = m],
                               <<"marker.webp", StoryHash(r), IntSeconds(seconds)>>)

StoryMarkerPreviewHandler(r, mparam, lookup) ==
    LET m == FindMarker(mparam, lookup)
    IN  MarkerLookup(mparam, lookup,
            FileOrPlaceholder([NoResp EXCEPT !.marker = m],
                              <<"marker.webp", StoryHash(r), IntSeconds(markers[m].seconds)>>))

StoryMarkerScreenshotHandler(r, mparam, lookup) ==
    LET m == FindMarker(mparam, lookup)
    IN  MarkerLookup(mparam, lookup,
            FileOrPlaceholder([NoResp EXCEPT !.marker = m],
                              <<"marker.jpg", StoryHash(r), IntSeconds(markers[m].seconds)>>))

StoryMarkerStream(r, mparam, lookup) ==
    /\ req[r].pc = "loaded"
    /\ Respond(r, "story_marker/stream", [NoArgs EXCEPT !.id = mparam, !.lookup = lookup],
               StoryMarkerStreamHandler(r, mparam, lookup))

StoryMarkerPreview(r, mparam, lookup) ==
    /\ req[r].pc = "loaded"
    /\ Respond(r, "story_marker/preview", [NoArgs EXCEPT !.id = mparam, !.lookup = lookup],
               StoryMarkerPreviewHandler(r, mparam, lookup))

StoryMarkerScreenshot(r, mparam, lookup) ==
    /\ req[r].pc = "loaded"
    /\ Respond(r, "story_marker/screenshot", [NoArgs EXCEPT !.id = mparam, !.lookup = lookup],
               StoryMarkerScreenshotHandler(r, mparam, lookup))

\* the storyMarkerId parameters: every marker id, an unused id, a non-integer
MarkerParams == {Itoa(m) : m \in 1..(MaxMarkers + 1)} \cup {<<"x">>}

\* ------------------------------------------------------------ captions
\* captionFinder.GetCaptions: the captions recorded for a file, in order
GetCaptions(f) ==
    IF f = 1
    THEN <<[LanguageCode |-> "en", CaptionType |-> "vtt"],
           [LanguageCode |-> "de", CaptionType |-> "srt"],
           [LanguageCode |-> "en", CaptionType |-> "srt"],
           [LanguageCode |-> "en", CaptionType |-> "srt"]>>
    ELSE IF f = 3 THEN <<[LanguageCode |-> "de", CaptionType |-> "srt"]>>
    ELSE <<>>

Langs == {"en", "de", ""}
Exts == {"srt", "vtt"}

\* the loop over the captions from index i on: the first caption with the
\* language and the type asked for is read and converted, and the handler
\* returns whatever comes of it
RECURSIVE CaptionLoop(_, _, _, _, _, _)
CaptionLoop(captions, i, lang, ext, readErr, convErr) ==
    IF i > Len(captions) THEN NoResp
    ELSE IF lang # captions[i].LanguageCode \/ ext # captions[i].CaptionType
    THEN CaptionLoop(captions, i + 1, lang, ext, readErr, convErr)
    ELSE IF readErr THEN Error([NoResp EXCEPT !.caption = i], StatusInternalServerError)
    ELSE IF convErr THEN Error([NoResp EXCEPT !.caption = i], StatusInternalServerError)
    ELSE ServeStaticContent([NoResp EXCEPT !.caption = i, !.ctype = "text/vtt"], "vtt")

\* mutant: the loop goes on to the next caption instead of returning
CaptionHandler_LastMatch(r, lang, ext, lookup, readErr, convErr) ==
    LET captions == IF req[r].file = NoFile THEN <<>> ELSE GetCaptions(req[r].file)
        hits == {i \in 1..Len(captions) :
                    lang = captions[i].LanguageCode /\ ext = captions[i].CaptionType}
    IN  IF req[r].file # NoFile /\ lookup = "cancelled" THEN NoResp
        ELSE IF req[r].file # NoFile /\ lookup # "ok"
        THEN Error(NoResp, StatusInternalServerError)
        ELSE IF hits = {} THEN NoResp
        ELSE CaptionLoop(captions, CHOOSE i \in hits : \A j \in hits : j <= i,
                         lang, ext, readErr, convErr)

\* Caption: the captions of the primary file are looked up in a read
\* transaction (no lookup without primary file), then scanned
CaptionHandler(r, lang, ext, lookup, readErr, convErr) ==
    LET captions == IF req[r].file = NoFile THEN <<>> ELSE GetCaptions(req[r].file)
    IN  IF req[r].file # NoFile /\ lookup = "cancelled" THEN NoResp
        ELSE IF req[r].file # NoFile /\ lookup # "ok"
        THEN Error(NoResp, StatusInternalServerError)
        ELSE CaptionLoop(captions, 1, lang, ext, readErr, convErr)

\* /caption?lang=&type=
CaptionLang(r, lang, ext, lookup, readErr, convErr) ==
    /\ req[r].pc = "loaded"
    /\ Respond(r, "caption",
               [NoArgs EXCEPT !.lang = lang, !.ext = ext, !.readErr = readErr, !.convErr = convErr,
                              !.lookup = IF req[r].file = NoFile THEN "" ELSE lookup],
               CaptionHandler(r, lang, ext, lookup, readErr, convErr))

\* every static route of a loaded story
StaticStep(r) ==
    \/ Preview(r)
    \/ Webp(r)
    \/ InteractiveHeatmap(r)
    \/ VttThumbs(r)
    \/ VttSprite(r)
    \/ \E mparam \in MarkerParams, lookup \in LookupOutcomes : StoryMarkerStream(r, mparam, lookup)
    \/ \E mparam \in MarkerParams, lookup \in LookupOutcomes : StoryMarkerPreview(r, mparam, lookup)
    \/ \E mparam \in MarkerParams, lookup \in LookupOutcomes : StoryMarkerScreenshot(r, mparam, lookup)
    \/ \E lang \in Langs, ext \in Exts, lookup \in LookupOutcomes, readErr \in BOOLEAN,
          convErr \in BOOLEAN : CaptionLang(r, lang, ext, lookup, readErr, convErr)

\* the storyHash parameters of the routes without StoryCtx
HashParams == {GetHash(1, algo) : algo \in NamingAlgorithms} \cup {GetHash(MaxFiles + 1, "oshash")}

\* ------------------------------------------------------------ mutations
IdleMut ==
    [op |-> "none", pc |-> "idle", ids |-> <<>>, inputs |-> <<>>, dest |-> NoStory, i |-> 1,
     cur |-> NoStory, delGen |-> FALSE, delFile |-> FALSE, stories |-> <<>>,
     killed |-> {}, killFailed |-> {}, destroyCalled |-> {}, repointed |-> {}, merged |-> {},
     err |-> FALSE, result |-> "none", hooked |-> <<>>,
     parsed |-> FALSE, txnOk |-> FALSE, commits |-> 0, rollbacks |-> 0, removed |-> {},
     spared |-> {}, calls |-> {}, msg |-> ""]

DestroyOps == {"StoryDestroy", "StoriesDestroy"}

UpdateOps == {"StoryUpdate", "StoriesUpdate"}

MarkerOps == {"StoryMarkerUpdate", "StoryMarkerDestroy"}

\* the mutations that carry a fileDeleter
FileDeleterOps == DestroyOps \cup MarkerOps

\* stringslice.StringSliceToIntSlice: every element parsed, or an error
StringSliceToIntSlice(ss) ==
    IF \E i \in 1..Len(ss) : Atoi(ss[i]).err
    THEN [err |-> TRUE, val |-> <<>>]
    ELSE [err |-> FALSE, val |-> [i \in 1..Len(ss) |-> Atoi(ss[i]).val]]

\* qb.Find inside the write transaction
Find(id) == IF id \in Stories /\ txdb[id].exists THEN id ELSE NoStory

\* the generated files of a story, named by its hash: <<kind, hash, 0>>
GeneratedPaths(row) ==
    IF row.primary = NoFile THEN {}
    ELSE {<<kind, GetHash(row.primary, namingAlgo), 0>> : kind \in GeneratedKinds}

FilePaths(row) == {<<"file", NoHash, f>> : f \in row.files}

\* a mutation that fails to parse its ids returns the error at once
ReturnError(op) == [IdleMut EXCEPT !.op = op, !.result = "error"]

\* the mutation has returned: what it did stays on record until the next call
Returned(result) ==
    [IdleMut EXCEPT !.op = mut.op, !.result = result, !.stories = mut.stories,
                    !.killed = mut.killed, !.destroyCalled = mut.destroyCalled,
                    !.repointed = mut.repointed, !.merged = mut.merged,
                    !.parsed = mut.parsed, !.txnOk = mut.txnOk, !.commits = mut.commits,
                    !.rollbacks = mut.rollbacks, !.removed = mut.removed,
                    !.spared = mut.spared, !.calls = mut.calls, !.msg = mut.msg]

StoryDestroy(idp, deleteGenerated, deleteFile) ==
    /\ mut.pc = "idle"
    /\ LET a == Atoi(idp)
       IN  mut' = IF a.err THEN ReturnError("StoryDestroy")
                  ELSE [IdleMut EXCEPT !.op = "StoryDestroy", !.pc = "find", !.ids = <<a.val>>,
                                       !.parsed = TRUE,
                                       !.delGen = deleteGenerated, !.delFile = deleteFile]
    /\ marked' = {}
    /\ UNCHANGED <<liveTranscode, namingAlgo, markers, txmarkers, db, txdb, disk, cache, req>>

StoriesDestroy(idps, deleteGenerated, deleteFile) ==
    /\ mut.pc = "idle"
    /\ LET a == StringSliceToIntSlice(idps)
       IN  mut' = IF a.err THEN ReturnError("StoriesDestroy")
                  ELSE [IdleMut EXCEPT !.op = "StoriesDestroy",
                                       !.pc = IF a.val = <<>> THEN "txnend" ELSE "find",
                                       !.ids = a.val, !.parsed = TRUE,
                                       !.delGen = deleteGenerated, !.delFile = deleteFile]
    /\ marked' = {}
    /\ UNCHANGED <<liveTranscode, namingAlgo, markers, txmarkers, db, txdb, disk, cache, req>>

\* mutant: an id that refers to no story is skipped
DestroyFind_SkipMissing(findErr) ==
    /\ mut.op \in DestroyOps
    /\ mut.pc = "find"
    /\ LET s == Find(mut.ids[mut.i])
       IN  mut' = IF findErr
                  THEN [mut EXCEPT !.err = TRUE, !.pc = "txnend"]
                  ELSE IF s = NoStory
                  THEN [mut EXCEPT !.i = @ + 1,
                                   !.pc = IF mut.i = Len(mut.ids) THEN "txnend" ELSE "find"]
                  ELSE [mut EXCEPT !.cur = s, !.stories = Append(@, s), !.pc = "kill"]
    /\ UNCHANGED <<liveTranscode, namingAlgo, markers, txmarkers, db, txdb, disk, marked, cache, req>>

\* qb.Find of the next id and the nil check
DestroyFind(findErr) ==
    /\ mut.op \in DestroyOps
    /\ mut.pc = "find"
    /\ LET s == Find(mut.ids[mut.i])
       IN  mut' = IF findErr \/ s = NoStory
                  THEN [mut EXCEPT !.err = TRUE, !.pc = "txnend"]
                  ELSE [mut EXCEPT !.cur = s, !.stories = Append(@, s), !.pc = "kill"]
    /\ UNCHANGED <<liveTranscode, namingAlgo, markers, txmarkers, db, txdb, disk, marked, cache, req>>

\* mutant: the destroy goes on without killing the story's streams
DestroyKill_Skipped(dies) ==
    /\ mut.op \in DestroyOps
    /\ mut.pc = "kill"
    /\ mut' = [mut EXCEPT !.pc = "destroy"]
    /\ UNCHANGED <<liveTranscode, namingAlgo, markers, txmarkers, db, txdb, disk, marked, cache, req>>

\* mutant: a kill that fails is returned as the transaction's error
DestroyKill_FailureReturned(dies) ==
    /\ mut.op \in DestroyOps
    /\ mut.pc = "kill"
    /\ req' = IF dies THEN KillRunningStreams(mut.cur) ELSE req
    /\ mut' = IF dies
              THEN [mut EXCEPT !.killed = @ \cup {mut.cur}, !.pc = "destroy"]
              ELSE [mut EXCEPT !.killed = @ \cup {mut.cur}, !.killFailed = @ \cup {mut.cur},
                               !.err = TRUE, !.pc = "txnend"]
    /\ UNCHANGED <<liveTranscode, namingAlgo, markers, txmarkers, db, txdb, disk, marked, cache>>

\* kill any running encoders: the call returns nothing, and an encoder that
\* will not die (dies = FALSE) is only logged
DestroyKill(dies) ==
    /\ mut.op \in DestroyOps
    /\ mut.pc = "kill"
    /\ req' = IF dies THEN KillRunningStreams(mut.cur) ELSE req
    /\ mut' = [mut EXCEPT !.killed = @ \cup {mut.cur},
                          !.killFailed = IF dies THEN @ ELSE @ \cup {mut.cur},
                          !.pc = "destroy"]
    /\ UNCHANGED <<liveTranscode, namingAlgo, markers, txmarkers, db, txdb, disk, marked, cache>>

\* storyService.Destroy: the story leaves the database and its files are
\* marked for deletion as asked
Destroy(s, deleteGenerated, deleteFile) ==
    [txdb |-> [txdb EXCEPT ![s] = NoStoryRow],
     marked |-> marked \cup (IF deleteGenerated THEN GeneratedPaths(txdb[s]) ELSE {})
                       \cup (IF deleteFile THEN FilePaths(txdb[s]) ELSE {})]

DestroyService(fails) ==
    /\ mut.op \in DestroyOps
    /\ mut.pc = "destroy"
    /\ IF fails
       THEN /\ mut' = [mut EXCEPT !.destroyCalled = @ \cup {mut.cur}, !.err = TRUE, !.pc = "txnend"]
            /\ UNCHANGED <<txdb, marked>>
       ELSE LET d == Destroy(mut.cur, mut.delGen, mut.delFile)
            IN  /\ txdb' = d.txdb
                /\ marked' = d.marked
                /\ mut' = [mut EXCEPT !.destroyCalled = @ \cup {mut.cur},
                                      !.i = @ + 1,
                                      !.pc = IF mut.i = Len(mut.ids) THEN "txnend" ELSE "find"]
    /\ UNCHANGED <<liveTranscode, namingAlgo, markers, txmarkers, db, disk, cache, req>>

\* mutant: a failed transaction brings back the streams that were killed
TxnEnd_StreamsRestored(commitErr) ==
    /\ mut.pc = "txnend"
    /\ IF mut.err \/ commitErr
       THEN /\ txdb' = db
            /\ txmarkers' = markers
            /\ UNCHANGED <<db, markers>>
            /\ req' = [q \in Reqs |->
                          IF req[q].pc = "done" /\ req[q].call # "none"
                             /\ req[q].story \in mut.killed
                          THEN [req[q] EXCEPT !.pc = "streaming", !.job = TRUE]
                          ELSE req[q]]
            /\ mut' = IF mut.op \in FileDeleterOps
                      THEN [mut EXCEPT !.err = TRUE, !.pc = "rollback"]
                      ELSE Returned("error")
       ELSE /\ db' = txdb
            /\ markers' = txmarkers
            /\ UNCHANGED <<txdb, txmarkers, req>>
            /\ mut' = IF mut.op = "StoryMerge"
                      THEN [Returned("ok") EXCEPT !.txnOk = TRUE]
                      ELSE [mut EXCEPT !.txnOk = TRUE, !.pc = "committed"]
    /\ UNCHANGED <<liveTranscode, namingAlgo, disk, marked, cache>>

\* mutant: the fileDeleter is committed whether the transaction failed or not
TxnEnd_DeleterAlwaysCommitted(commitErr) ==
    /\ mut.pc = "txnend"
    /\ IF mut.err \/ commitErr
       THEN /\ txdb' = db
            /\ txmarkers' = markers
            /\ UNCHANGED <<db, markers>>
            /\ mut' = IF mut.op \in FileDeleterOps
                      THEN [mut EXCEPT !.err = TRUE, !.pc = "committed"]
                      ELSE Returned("error")
       ELSE /\ db' = txdb
            /\ markers' = txmarkers
            /\ UNCHANGED <<txdb, txmarkers>>
            /\ mut' = IF mut.op = "StoryMerge"
                      THEN [Returned("ok") EXCEPT !.txnOk = TRUE]
                      ELSE [mut EXCEPT !.txnOk = TRUE, !.pc = "committed"]
    /\ UNCHANGED <<liveTranscode, namingAlgo, disk, marked, cache, req>>

\* withTxn returns: the writes are committed, or rolled back on an error of
\* the body or of the commit itself. A failed update or merge returns its
\* error at once.
TxnEnd(commitErr) ==
    /\ mut.pc = "txnend"
    /\ IF mut.err \/ commitErr
       THEN /\ txdb' = db
            /\ txmarkers' = markers
            /\ UNCHANGED <<db, markers>>
            /\ mut' = IF mut.op \in FileDeleterOps
                      THEN [mut EXCEPT !.err = TRUE, !.pc = "rollback"]
                      ELSE Returned("error")
       ELSE /\ db' = txdb
            /\ markers' = txmarkers
            /\ UNCHANGED <<txdb, txmarkers>>
            /\ mut' = IF mut.op = "StoryMerge"
                      THEN [Returned("ok") EXCEPT !.txnOk = TRUE]
                      ELSE [mut EXCEPT !.txnOk = TRUE, !.pc = "committed"]
    /\ UNCHANGED <<liveTranscode, namingAlgo, disk, marked, cache, req>>

\* fileDeleter.Rollback() and the error return: nothing is removed
FileDeleterRollback ==
    /\ mut.op \in FileDeleterOps
    /\ mut.pc = "rollback"
    /\ marked' = {}
    /\ mut' = [Returned("error") EXCEPT !.rollbacks = mut.rollbacks + 1,
                                    !.spared = disk \cap marked]
    /\ UNCHANGED <<liveTranscode, namingAlgo, markers, txmarkers, db, txdb, disk, cache, req>>

\* fileDeleter.Commit(): the marked files are removed
FileDeleterCommit ==
    /\ mut.op \in FileDeleterOps
    /\ mut.pc = "committed"
    /\ disk' = disk \ marked
    /\ marked' = {}
    /\ mut' = [mut EXCEPT !.commits = @ + 1, !.removed = disk \cap marked, !.pc = "posthooks"]
    /\ UNCHANGED <<liveTranscode, namingAlgo, markers, txmarkers, db, txdb, cache, req>>

\* the StoryDestroyPost hook of every destroyed story, then the return
DestroyPostHooks ==
    /\ mut.op \in DestroyOps
    /\ mut.pc = "posthooks"
    /\ mut' = [Returned("ok") EXCEPT !.hooked = mut.stories]
    /\ UNCHANGED <<liveTranscode, namingAlgo, markers, txmarkers, db, txdb, disk, marked, cache, req>>

\* the input of a story update: id and primary file id as sent, the title
\* and whether a cover image comes with it
NoUpdate ==
    [id |-> <<>>, hasPrimary |-> FALSE, primary |-> <<>>, hasTitle |-> FALSE, title |-> "",
     cover |-> FALSE]

PrimaryInput(idp, hasPrimary, primary) ==
    [NoUpdate EXCEPT !.id = idp, !.hasPrimary = hasPrimary, !.primary = primary]

TitleInput(idp, title, cover) ==
    [NoUpdate EXCEPT !.id = idp, !.hasTitle = TRUE, !.title = title, !.cover = cover]

\* the repository calls of storyUpdate that can fail
UpdateFailures == {"none", "find", "load", "image", "update", "cover"}

\* repository UpdatePartial: the fields of the partial that are set replace
\* the story's
UpdatePartial(s, hasPrimary, newPrimaryFileID, hasTitle, title) ==
    [txdb EXCEPT ![s].primary = IF hasPrimary THEN newPrimaryFileID ELSE @,
                 ![s].title = IF hasTitle THEN title ELSE @]

\* storyUpdate returns an error: msg is its text, calls the writes it made
UpdateFailed(msg, written, calls) ==
    [err |-> TRUE, msg |-> msg, story |-> NoStory, txdb |-> written, repointed |-> FALSE,
     calls |-> calls]

\* mutant: the new primary file is not checked against the story's files
storyUpdate_AnyPrimaryFile(input, failAt) ==
    LET a == Atoi(input.id)
        s == IF a.err THEN NoStory ELSE Find(a.val)
        p == Atoi(input.primary)
        emptyTitle == input.hasTitle /\ input.title = ""
        written == UpdatePartial(s, input.hasPrimary, p.val, input.hasTitle, input.title)
        partial == {<<"UpdatePartial", s>>}
    IN  IF a.err THEN UpdateFailed("converting id", txdb, {})
        ELSE IF failAt = "find" THEN UpdateFailed("repository", txdb, {})
        ELSE IF s = NoStory THEN UpdateFailed("story not found", txdb, {})
        ELSE IF input.hasPrimary /\ p.err
        THEN UpdateFailed("converting primary file id", txdb, {})
        ELSE IF emptyTitle /\ failAt = "load" THEN UpdateFailed("repository", txdb, {})
        ELSE IF emptyTitle /\ txdb[s].files = {}
        THEN UpdateFailed("title must be set if story has no files", txdb, {})
        ELSE IF input.hasPrimary /\ failAt = "load" THEN UpdateFailed("repository", txdb, {})
        ELSE IF input.cover /\ failAt = "image"
        THEN UpdateFailed("processing cover image", txdb, {})
        ELSE IF failAt = "update" THEN UpdateFailed("repository", txdb, partial)
        ELSE IF input.cover /\ failAt = "cover"
        THEN UpdateFailed("repository", written, partial \cup {<<"UpdateCover", s>>})
        ELSE [err |-> FALSE, msg |-> "", story |-> s, txdb |-> written,
              repointed |-> input.hasPrimary /\ p.val # txdb[s].primary,
              calls |-> partial \cup (IF input.cover THEN {<<"UpdateCover", s>>} ELSE {})]

\* mutant: an empty title is accepted whether the story has files or not
storyUpdate_EmptyTitleAccepted(input, failAt) ==
    LET a == Atoi(input.id)
        s == IF a.err THEN NoStory ELSE Find(a.val)
        p == Atoi(input.primary)
        written == UpdatePartial(s, input.hasPrimary, p.val, input.hasTitle, input.title)
        partial == {<<"UpdatePartial", s>>}
    IN  IF a.err THEN UpdateFailed("converting id", txdb, {})
        ELSE IF failAt = "find" THEN UpdateFailed("repository", txdb, {})
        ELSE IF s = NoStory THEN UpdateFailed("story not found", txdb, {})
        ELSE IF input.hasPrimary /\ p.err
        THEN UpdateFailed("converting primary file id", txdb, {})
        ELSE IF input.hasPrimary /\ failAt = "load" THEN UpdateFailed("repository", txdb, {})
        ELSE IF input.hasPrimary /\ p.val \notin txdb[s].files
        THEN UpdateFailed("file not associated with story", txdb, {})
        ELSE IF input.cover /\ failAt = "image"
        THEN UpdateFailed("processing cover image", txdb, {})
        ELSE IF failAt = "update" THEN UpdateFailed("repository", txdb, partial)
        ELSE IF input.cover /\ failAt = "cover"
        THEN UpdateFailed("repository", written, partial \cup {<<"UpdateCover", s>>})
        ELSE [err |-> FALSE, msg |-> "", story |-> s, txdb |-> written,
              repointed |-> input.hasPrimary /\ p.val # txdb[s].primary,
              calls |-> partial \cup (IF input.cover THEN {<<"UpdateCover", s>>} ELSE {})]

\* storyUpdate for one input: the story that was updated and the database
\* after it, or an error; failAt names the repository call that fails
storyUpdate(input, failAt) ==
    LET a == Atoi(input.id)
        s == IF a.err THEN NoStory ELSE Find(a.val)
        p == Atoi(input.primary)
        emptyTitle == input.hasTitle /\ input.title = ""
        written == UpdatePartial(s, input.hasPrimary, p.val, input.hasTitle, input.title)
        partial == {<<"UpdatePartial", s>>}
    IN  IF a.err THEN UpdateFailed("converting id", txdb, {})
        ELSE IF failAt = "find" THEN UpdateFailed("repository", txdb, {})
        ELSE IF s = NoStory THEN UpdateFailed("story not found", txdb, {})
        ELSE IF input.hasPrimary /\ p.err
        THEN UpdateFailed("converting primary file id", txdb, {})
        ELSE IF emptyTitle /\ failAt = "load" THEN UpdateFailed("repository", txdb, {})
        ELSE IF emptyTitle /\ txdb[s].files = {}
        THEN UpdateFailed("title must be set if story has no files", txdb, {})
        ELSE IF input.hasPrimary /\ failAt = "load" THEN UpdateFailed("repository", txdb, {})
        ELSE IF input.hasPrimary /\ p.val \notin txdb[s].files
        THEN UpdateFailed("file not associated with story", txdb, {})
        ELSE IF input.cover /\ failAt = "image"
        THEN UpdateFailed("processing cover image", txdb, {})
        ELSE IF failAt = "update" THEN UpdateFailed("repository", txdb, partial)
        ELSE IF input.cover /\ failAt = "cover"
        THEN UpdateFailed("repository", written, partial \cup {<<"UpdateCover", s>>})
        ELSE [err |-> FALSE, msg |-> "", story |-> s, txdb |-> written,
              repointed |-> input.hasPrimary /\ p.val # txdb[s].primary,
              calls |-> partial \cup (IF input.cover THEN {<<"UpdateCover", s>>} ELSE {})]

StoryUpdate(input) ==
    /\ mut.pc = "idle"
    /\ mut' = [IdleMut EXCEPT !.op = "StoryUpdate", !.pc = "update", !.inputs = <<input>>,
                              !.parsed = TRUE]
    /\ marked' = {}
    /\ UNCHANGED <<liveTranscode, namingAlgo, markers, txmarkers, db, txdb, disk, cache, req>>

StoriesUpdate(inputs) ==
    /\ mut.pc = "idle"
    /\ mut' = [IdleMut EXCEPT !.op = "StoriesUpdate",
                              !.pc = IF inputs = <<>> THEN "txnend" ELSE "update",
                              !.inputs = inputs, !.parsed = TRUE]
    /\ marked' = {}
    /\ UNCHANGED <<liveTranscode, namingAlgo, markers, txmarkers, db, txdb, disk, cache, req>>

\* mutant: an input whose update fails is skipped and the list goes on
UpdateStep_SkipFailed(failAt) ==
    /\ mut.op \in UpdateOps
    /\ mut.pc = "update"
    /\ LET u == storyUpdate(mut.inputs[mut.i], failAt)
       IN  IF u.err
           THEN /\ UNCHANGED txdb
                /\ mut' = [mut EXCEPT !.i = @ + 1,
                                      !.pc = IF mut.i = Len(mut.inputs)
                                             THEN "txnend" ELSE "update"]
           ELSE /\ txdb' = u.txdb
                /\ mut' = [mut EXCEPT !.stories = Append(@, u.story),
                                      !.calls = @ \cup u.calls,
                                      !.repointed = IF u.repointed THEN @ \cup {u.story} ELSE @,
                                      !.i = @ + 1,
                                      !.pc = IF mut.i = Len(mut.inputs) THEN "txnend" ELSE "update"]
    /\ UNCHANGED <<liveTranscode, namingAlgo, markers, txmarkers, db, disk, marked, cache, req>>

\* one storyUpdate inside the transaction
UpdateStep(failAt) ==
    /\ mut.op \in UpdateOps
    /\ mut.pc = "update"
    /\ LET u == storyUpdate(mut.inputs[mut.i], failAt)
       IN  IF u.err
           THEN /\ txdb' = u.txdb
                /\ mut' = [mut EXCEPT !.err = TRUE, !.msg = u.msg,
                                      !.calls = @ \cup u.calls, !.pc = "txnend"]
           ELSE /\ txdb' = u.txdb
                /\ mut' = [mut EXCEPT !.stories = Append(@, u.story),
                                      !.calls = @ \cup u.calls,
                                      !.repointed = IF u.repointed THEN @ \cup {u.story} ELSE @,
                                      !.i = @ + 1,
                                      !.pc = IF mut.i = Len(mut.inputs) THEN "txnend" ELSE "update"]
    /\ UNCHANGED <<liveTranscode, namingAlgo, markers, txmarkers, db, disk, marked, cache, req>>

\* ids of a bulk update; badField: one of the other conversions fails
BulkStoryUpdate(idps, badField) ==
    /\ mut.pc = "idle"
    /\ LET a == StringSliceToIntSlice(idps)
       IN  mut' = IF a.err \/ badField THEN ReturnError("BulkStoryUpdate")
                  ELSE [IdleMut EXCEPT !.op = "BulkStoryUpdate",
                                       !.pc = IF a.val = <<>> THEN "txnend" ELSE "bulk",
                                       !.ids = a.val, !.parsed = TRUE]
    /\ marked' = {}
    /\ UNCHANGED <<liveTranscode, namingAlgo, markers, txmarkers, db, txdb, disk, cache, req>>

\* one qb.UpdatePartial of the bulk update inside the transaction; the
\* partial carries no primary file
BulkUpdateStep(dbErr) ==
    /\ mut.op = "BulkStoryUpdate"
    /\ mut.pc = "bulk"
    /\ LET s == Find(mut.ids[mut.i])
       IN  mut' = IF dbErr \/ s = NoStory
                  THEN [mut EXCEPT !.err = TRUE, !.pc = "txnend"]
                  ELSE [mut EXCEPT !.stories = Append(@, s), !.i = @ + 1,
                                   !.pc = IF mut.i = Len(mut.ids) THEN "txnend" ELSE "bulk"]
    /\ UNCHANGED <<liveTranscode, namingAlgo, markers, txmarkers, db, txdb, disk, marked, cache, req>>

\* the mutations that run StoryUpdatePost hooks
HookedUpdateOps == UpdateOps \cup {"BulkStoryUpdate"}

\* mutant: the hooks of the updated stories run although the transaction failed
UpdatePostHooks_BeforeTxnCheck(failAt) ==
    /\ mut.op \in HookedUpdateOps
    /\ mut.pc \in {"committed", "txnend"}
    /\ failAt <= Len(mut.stories)
    /\ mut' = IF failAt = 0
              THEN [Returned(IF mut.pc = "committed" THEN "ok" ELSE "error")
                        EXCEPT !.hooked = mut.stories]
              ELSE [Returned("error") EXCEPT !.hooked = SubSeq(mut.stories, 1, failAt)]
    /\ txdb' = db
    /\ UNCHANGED <<liveTranscode, namingAlgo, markers, txmarkers, db, disk, marked, cache, req>>

\* the post-hook loop: the StoryUpdatePost hook of each updated story and
\* then getStory of it, whose error ends the mutation; failAt is the position
\* of the story whose getStory fails, 0 when none does
UpdatePostHooks(failAt) ==
    /\ mut.op \in HookedUpdateOps
    /\ mut.pc = "committed"
    /\ failAt <= Len(mut.stories)
    /\ mut' = IF failAt = 0
              THEN [Returned("ok") EXCEPT !.hooked = mut.stories]
              ELSE [Returned("error") EXCEPT !.hooked = SubSeq(mut.stories, 1, failAt)]
    /\ UNCHANGED <<liveTranscode, namingAlgo, markers, txmarkers, db, txdb, disk, marked, cache, req>>

SeqRange(q) == {q[i] : i \in 1..Len(q)}

\* storyService.Merge: the files of the source stories move to the
\* destination and the source stories are destroyed
Merge(srcIDs, destID) ==
    LET srcs == SeqRange(srcIDs) \ {destID}
        moved == UNION {txdb[x].files : x \in srcs}
    IN  IF Find(destID) = NoStory \/ \E x \in srcs : Find(x) = NoStory
        THEN [err |-> TRUE, txdb |-> txdb, marked |-> marked, srcs |-> {}]
        ELSE [err |-> FALSE,
              txdb |-> [s \in Stories |->
                          IF s \in srcs THEN NoStoryRow
                          ELSE IF s = destID
                          THEN [exists |-> TRUE,
                                title |-> txdb[s].title,
                                files |-> txdb[s].files \cup moved,
                                primary |-> IF txdb[s].primary = NoFile /\ moved # {}
                                            THEN MinOf(moved) ELSE txdb[s].primary]
                          ELSE txdb[s]],
              marked |-> marked \cup UNION {GeneratedPaths(txdb[x]) : x \in srcs},
              srcs |-> srcs]

StoryMerge(srcps, destp) ==
    /\ mut.pc = "idle"
    /\ LET a == StringSliceToIntSlice(srcps)
           d == Atoi(destp)
       IN  mut' = IF a.err \/ d.err THEN ReturnError("StoryMerge")
                  ELSE [IdleMut EXCEPT !.op = "StoryMerge", !.pc = "merge",
                                       !.ids = a.val, !.dest = d.val, !.parsed = TRUE]
    /\ marked' = {}
    /\ UNCHANGED <<liveTranscode, namingAlgo, markers, txmarkers, db, txdb, disk, cache, req>>

\* the body of StoryMerge's transaction
MergeStep(fails) ==
    /\ mut.op = "StoryMerge"
    /\ mut.pc = "merge"
    /\ LET m == Merge(mut.ids, mut.dest)
       IN  IF fails \/ m.err
           THEN /\ mut' = [mut EXCEPT !.err = TRUE, !.pc = "txnend"]
                /\ UNCHANGED <<txdb, marked>>
           ELSE /\ txdb' = m.txdb
                /\ marked' = m.marked
                /\ mut' = [mut EXCEPT !.merged = m.srcs, !.stories = <<mut.dest>>, !.pc = "txnend"]
    /\ UNCHANGED <<liveTranscode, namingAlgo, markers, txmarkers, db, disk, cache, req>>

\* ------------------------------------------------------------ marker mutations
\* the steps of a marker transaction at which the repository or the
\* fileDeleter can fail
MarkerUpdateFailures == {"none", "find", "update", "story", "mark", "tags"}
MarkerDestroyFailures == {"none", "find", "story", "destroy"}

\* qb.Find of a marker inside the write transaction
FindTxMarker(id) == IF id \in Markers /\ txmarkers[id].exists THEN id ELSE NoMarker

\* qb.UpdatePartial: the fields of the partial that are set replace the marker's
UpdatePartialMarker(row, input) ==
    [row EXCEPT !.story = IF input.hasStory THEN Atoi(input.story).val ELSE @,
                !.seconds = IF input.hasSeconds THEN input.seconds ELSE @,
                !.primaryTag = IF input.hasPrimaryTag THEN Atoi(input.primaryTag).val ELSE @]

\* sliceutil.Exclude followed by qb.UpdateTags: the tags stored for a marker
Exclude(tagIDs, excluded) == {tagIDs[i] : i \in 1..Len(tagIDs)} \ excluded

\* fileDeleter.MarkMarkerFiles(story, seconds)
MarkMarkerFiles(s, seconds) == marked \cup MarkerFilePaths(txdb[s], seconds)

\* the input of a marker update: the marker id, the fields that are set and
\* whether the input carries a tag_ids field
NoMarkerUpdate ==
    [id |-> <<>>, hasStory |-> FALSE, story |-> <<>>, hasSeconds |-> FALSE, seconds |-> 0,
     hasPrimaryTag |-> FALSE, primaryTag |-> <<>>, tagsIncluded |-> FALSE, tagIds |-> <<>>]

StoryMarkerUpdate(input) ==
    /\ mut.pc = "idle"
    /\ mut' = IF \/ Atoi(input.id).err
                 \/ (input.hasStory /\ Atoi(input.story).err)
                 \/ (input.hasPrimaryTag /\ Atoi(input.primaryTag).err)
                 \/ StringSliceToIntSlice(input.tagIds).err
              THEN ReturnError("StoryMarkerUpdate")
              ELSE [IdleMut EXCEPT !.op = "StoryMarkerUpdate", !.pc = "marker",
                                   !.ids = <<Atoi(input.id).val>>, !.inputs = <<input>>,
                                   !.parsed = TRUE]
    /\ marked' = {}
    /\ UNCHANGED <<liveTranscode, namingAlgo, markers, txmarkers, db, txdb, disk, cache, req>>

StoryMarkerDestroy(idp) ==
    /\ mut.pc = "idle"
    /\ mut' = IF Atoi(idp).err
              THEN ReturnError("StoryMarkerDestroy")
              ELSE [IdleMut EXCEPT !.op = "StoryMarkerDestroy", !.pc = "marker",
                                   !.ids = <<Atoi(idp).val>>, !.parsed = TRUE]
    /\ marked' = {}
    /\ UNCHANGED <<liveTranscode, namingAlgo, markers, txmarkers, db, txdb, disk, cache, req>>

\* mutant: the marker's files are marked whether the marker changed or not
MarkerUpdateStep_AlwaysMarks(failAt) ==
    /\ mut.op = "StoryMarkerUpdate"
    /\ mut.pc = "marker"
    /\ LET markerID == mut.ids[1]
           existing == FindTxMarker(markerID)
           old == txmarkers[existing]
           new == UpdatePartialMarker(old, mut.inputs[1])
           changed == TRUE
           failed == [mut EXCEPT !.err = TRUE, !.pc = "txnend"]
       IN  IF failAt = "find" \/ existing = NoMarker
           THEN mut' = failed /\ UNCHANGED <<txmarkers, marked>>
           ELSE IF failAt = "update"
           THEN mut' = failed /\ UNCHANGED <<txmarkers, marked>>
           ELSE IF failAt = "story" \/ Find(old.story) = NoStory
           THEN /\ mut' = failed
                /\ txmarkers' = [txmarkers EXCEPT ![existing] = new]
                /\ UNCHANGED marked
           ELSE IF changed /\ failAt = "mark"
           THEN /\ mut' = failed
                /\ txmarkers' = [txmarkers EXCEPT ![existing] = new]
                /\ UNCHANGED marked
           ELSE LET input == mut.inputs[1]
                    tagIDs == StringSliceToIntSlice(input.tagIds).val
                    saved == input.tagsIncluded /\ failAt # "tags"
                IN  /\ txmarkers' =
                          [txmarkers EXCEPT ![existing] =
                              IF saved
                              THEN [new EXCEPT !.tags = Exclude(tagIDs, {new.primaryTag})]
                              ELSE new]
                    /\ marked' = IF changed
                                 THEN MarkMarkerFiles(old.story, IntSeconds(old.seconds))
                                 ELSE marked
                    /\ mut' = IF input.tagsIncluded /\ failAt = "tags"
                              THEN failed ELSE [mut EXCEPT !.pc = "txnend"]
    /\ UNCHANGED <<liveTranscode, namingAlgo, markers, db, txdb, disk, cache, req>>

\* the body of StoryMarkerUpdate's transaction, failing at failAt
MarkerUpdateStep(failAt) ==
    /\ mut.op = "StoryMarkerUpdate"
    /\ mut.pc = "marker"
    /\ LET markerID == mut.ids[1]
           existing == FindTxMarker(markerID)
           old == txmarkers[existing]
           new == UpdatePartialMarker(old, mut.inputs[1])
           changed == old.story # new.story \/ old.seconds # new.seconds
           failed == [mut EXCEPT !.err = TRUE, !.pc = "txnend"]
       IN  IF failAt = "find" \/ existing = NoMarker
           THEN mut' = failed /\ UNCHANGED <<txmarkers, marked>>
           ELSE IF failAt = "update"
           THEN mut' = failed /\ UNCHANGED <<txmarkers, marked>>
           ELSE IF failAt = "story" \/ Find(old.story) = NoStory
           THEN /\ mut' = failed
                /\ txmarkers' = [txmarkers EXCEPT ![existing] = new]
                /\ UNCHANGED marked
           ELSE IF changed /\ failAt = "mark"
           THEN /\ mut' = failed
                /\ txmarkers' = [txmarkers EXCEPT ![existing] = new]
                /\ UNCHANGED marked
           ELSE LET input == mut.inputs[1]
                    tagIDs == StringSliceToIntSlice(input.tagIds).val
                    saved == input.tagsIncluded /\ failAt # "tags"
                IN  /\ txmarkers' =
                          [txmarkers EXCEPT ![existing] =
                              IF saved
                              THEN [new EXCEPT !.tags = Exclude(tagIDs, {new.primaryTag})]
                              ELSE new]
                    /\ marked' = IF changed
                                 THEN MarkMarkerFiles(old.story, IntSeconds(old.seconds))
                                 ELSE marked
                    /\ mut' = IF input.tagsIncluded /\ failAt = "tags"
                              THEN failed ELSE [mut EXCEPT !.pc = "txnend"]
    /\ UNCHANGED <<liveTranscode, namingAlgo, markers, db, txdb, disk, cache, req>>

\* story.DestroyMarker: the marker is destroyed and its files are marked
DestroyMarker(s, m) ==
    [txmarkers |-> [txmarkers EXCEPT ![m].exists = FALSE],
     marked |-> MarkMarkerFiles(s, IntSeconds(txmarkers[m].seconds))]

\* the body of StoryMarkerDestroy's transaction, failing at failAt
MarkerDestroyStep(failAt) ==
    /\ mut.op = "StoryMarkerDestroy"
    /\ mut.pc = "marker"
    /\ LET marker == FindTxMarker(mut.ids[1])
           failed == [mut EXCEPT !.err = TRUE, !.pc = "txnend"]
       IN  IF failAt = "find" \/ marker = NoMarker
           THEN mut' = failed /\ UNCHANGED <<txmarkers, marked>>
           ELSE IF failAt = "story" \/ Find(txmarkers[marker].story) = NoStory
           THEN mut' = failed /\ UNCHANGED <<txmarkers, marked>>
           ELSE IF failAt = "destroy"
           THEN mut' = failed /\ UNCHANGED <<txmarkers, marked>>
           ELSE LET d == DestroyMarker(txmarkers[marker].story, marker)
                IN  /\ txmarkers' = d.txmarkers
                    /\ marked' = d.marked
                    /\ mut' = [mut EXCEPT !.pc = "txnend"]
    /\ UNCHANGED <<liveTranscode, namingAlgo, markers, db, txdb, disk, cache, req>>

\* input: [story, primaryTag, seconds, tagIds], ids as sent
StoryMarkerCreate(input) ==
    /\ mut.pc = "idle"
    /\ mut' = IF \/ Atoi(input.story).err
                 \/ Atoi(input.primaryTag).err
                 \/ StringSliceToIntSlice(input.tagIds).err
              THEN ReturnError("StoryMarkerCreate")
              ELSE [IdleMut EXCEPT !.op = "StoryMarkerCreate", !.pc = "create",
                                   !.inputs = <<input>>, !.parsed = TRUE]
    /\ marked' = {}
    /\ UNCHANGED <<liveTranscode, namingAlgo, markers, txmarkers, db, txdb, disk, cache, req>>

MarkerCreateFailures == {"none", "create", "tags"}

\* the body of StoryMarkerCreate's transaction: qb.Create gives the marker
\* the first free id, then its tags are saved
MarkerCreateStep(failAt) ==
    /\ mut.op = "StoryMarkerCreate"
    /\ mut.pc = "create"
    /\ \E m \in Markers : ~txmarkers[m].exists
    /\ LET input == mut.inputs[1]
           id == MinOf({m \in Markers : ~txmarkers[m].exists})
           newMarker == [exists |-> TRUE, story |-> Atoi(input.story).val,
                         seconds |-> input.seconds,
                         primaryTag |-> Atoi(input.primaryTag).val, tags |-> {}]
           tagIDs == StringSliceToIntSlice(input.tagIds).val
           failed == [mut EXCEPT !.err = TRUE, !.pc = "txnend"]
       IN  IF failAt = "create"
           THEN mut' = failed /\ UNCHANGED txmarkers
           ELSE IF failAt = "tags"
           THEN /\ mut' = [failed EXCEPT !.ids = <<id>>]
                /\ txmarkers' = [txmarkers EXCEPT ![id] = newMarker]
           ELSE /\ mut' = [mut EXCEPT !.ids = <<id>>, !.pc = "txnend"]
                /\ txmarkers' =
                      [txmarkers EXCEPT ![id] =
                          [newMarker EXCEPT !.tags = Exclude(tagIDs, {newMarker.primaryTag})]]
    /\ UNCHANGED <<liveTranscode, namingAlgo, markers, db, txdb, disk, marked, cache, req>>

\* the StoryMarkerCreatePost hook, then the return
MarkerCreatePostHooks ==
    /\ mut.op = "StoryMarkerCreate"
    /\ mut.pc = "committed"
    /\ mut' = [Returned("ok") EXCEPT !.hooked = mut.ids]
    /\ UNCHANGED <<liveTranscode, namingAlgo, markers, txmarkers, db, txdb, disk, marked, cache, req>>

\* the StoryMarkerUpdatePost or StoryMarkerDestroyPost hook, then the return
MarkerPostHooks ==
    /\ mut.op \in MarkerOps
    /\ mut.pc = "posthooks"
    /\ mut' = [Returned("ok") EXCEPT !.hooked = mut.ids]
    /\ UNCHANGED <<liveTranscode, namingAlgo, markers, txmarkers, db, txdb, disk, marked, cache, req>>

\* the timestamp clients send, in tenths of a second: within the second of
\* marker 1, which starts at 1.5
SecondsParams == {17}

\* the story a marker is moved to: the first story, or not an integer
MarkerStoryParams == {Itoa(1), <<"x">>}

\* updates of the story and of the timestamp; the tag list is sent empty
MarkerUpdateInputs ==
    {[NoMarkerUpdate EXCEPT !.id = idp, !.hasStory = hs, !.story = IF hs THEN sp ELSE <<>>,
                            !.hasSeconds = hsec, !.seconds = IF hsec THEN sec ELSE 0,
                            !.tagsIncluded = TRUE] :
        idp \in MarkerParams, hs \in BOOLEAN, sp \in MarkerStoryParams, hsec \in BOOLEAN,
        sec \in SecondsParams}

\* the tag ids clients send
TagParams == {Itoa(t) : t \in Tags} \cup {<<"x">>}

TagLists == {<<>>} \cup {<<tp>> : tp \in TagParams}
            \cup {<<Itoa(t), Itoa(u)>> : t \in Tags, u \in Tags}

MarkerCreateInputs ==
    {[story |-> Itoa(1), primaryTag |-> pt, seconds |-> 15, tagIds |-> tagIds] :
        pt \in TagParams, tagIds \in TagLists}

\* updates of the primary tag and of the tag list
MarkerTagInputs ==
    {[NoMarkerUpdate EXCEPT !.id = Itoa(1), !.hasPrimaryTag = hp,
                            !.primaryTag = IF hp THEN pt ELSE <<>>,
                            !.tagsIncluded = ti, !.tagIds = IF ti THEN tagIds ELSE <<>>] :
        hp \in BOOLEAN, pt \in TagParams, ti \in BOOLEAN, tagIds \in TagLists}

MarkerTagCalls ==
    \/ \E input \in MarkerCreateInputs : StoryMarkerCreate(input)
    \/ \E input \in MarkerTagInputs : StoryMarkerUpdate(input)
    \/ \E idp \in MarkerParams : StoryMarkerDestroy(idp)

MarkerTagSteps ==
    \/ \E failAt \in MarkerCreateFailures : MarkerCreateStep(failAt)
    \/ MarkerCreatePostHooks

MarkerCalls ==
    \/ \E input \in MarkerUpdateInputs : StoryMarkerUpdate(input)
    \/ \E idp \in MarkerParams : StoryMarkerDestroy(idp)

MarkerSteps ==
    \/ \E failAt \in MarkerUpdateFailures : MarkerUpdateStep(failAt)
    \/ \E failAt \in MarkerDestroyFailures : MarkerDestroyStep(failAt)
    \/ \E commitErr \in BOOLEAN : TxnEnd(commitErr)
    \/ FileDeleterRollback
    \/ FileDeleterCommit
    \/ MarkerPostHooks

\* ------------------------------------------------------------ specification
\* everything but the disk: every story exists, story 1 with its files, the
\* others with or without; every marker exists
InitCatalog ==
    /\ liveTranscode \in BOOLEAN
    /\ namingAlgo \in NamingAlgorithms
    /\ \E full \in BOOLEAN :
          db = [s \in Stories |-> StoryRow(IF s = 1 \/ full THEN OwnedFiles(s) ELSE {})]
    /\ txdb = db
    /\ markers = [m \in Markers |-> MarkerRow(m)]
    /\ txmarkers = markers
    /\ marked = {}
    /\ cache = {}
    /\ req = [r \in Reqs |-> IdleReq]
    /\ mut = IdleMut

\* every file of the catalog and every generated artifact is on disk
AllPaths ==
    UNION {GeneratedPaths(db[s]) \cup FilePaths(db[s]) : s \in Stories}
    \cup UNION {MarkerPaths(db[markers[m].story], markers[m].seconds) : m \in Markers}

Init ==
    /\ InitCatalog
    /\ disk = AllPaths

\* lists of one to MaxIds elements
Lists(S) == UNION {[1..n -> S] : n \in 1..MaxIds}

FileParams == {Itoa(f) : f \in Files} \cup {<<"x">>}

UpdateInputs ==
    {PrimaryInput(idp, FALSE, <<>>) : idp \in IdParams}
    \cup {PrimaryInput(idp, TRUE, pp) : idp \in IdParams, pp \in FileParams}

\* the inputs of a bulk update: well-formed ids, any file of the catalog
BulkUpdateInputs ==
    {PrimaryInput(Itoa(s), FALSE, <<>>) : s \in Stories}
    \cup {PrimaryInput(Itoa(s), TRUE, Itoa(f)) : s \in Stories, f \in Files}

RouteStep(r, starts, resolutions, segments) ==
    \/ \E start \in starts, resolution \in resolutions : StreamMp4(r, start, resolution)
    \/ \E start \in starts, resolution \in resolutions : StreamWebM(r, start, resolution)
    \/ \E start \in starts, resolution \in resolutions : StreamMKV(r, start, resolution)
    \/ \E resolution \in resolutions : StreamHLS(r, resolution)
    \/ \E resolution \in resolutions : StreamDASH(r, resolution)
    \/ \E segment \in segments, resolution \in resolutions : StreamHLSSegment(r, segment, resolution)
    \/ \E segment \in segments, resolution \in resolutions : StreamDASHVideoSegment(r, segment, resolution)
    \/ \E segment \in segments, resolution \in resolutions : StreamDASHAudioSegment(r, segment, resolution)

DestroySteps ==
    \/ \E findErr \in BOOLEAN : DestroyFind(findErr)
    \/ \E dies \in BOOLEAN : DestroyKill(dies)
    \/ \E fails \in BOOLEAN : DestroyService(fails)
    \/ \E commitErr \in BOOLEAN : TxnEnd(commitErr)
    \/ FileDeleterRollback
    \/ FileDeleterCommit
    \/ DestroyPostHooks

UpdateSteps ==
    \/ \E failAt \in UpdateFailures : UpdateStep(failAt)
    \/ \E commitErr \in BOOLEAN : TxnEnd(commitErr)
    \/ \E failAt \in 0..MaxIds : UpdatePostHooks(failAt)

BulkCalls ==
    \/ \E idps \in Lists(IdParams), badField \in BOOLEAN : BulkStoryUpdate(idps, badField)

BulkSteps ==
    \/ \E dbErr \in BOOLEAN : BulkUpdateStep(dbErr)

DestroyCalls ==
    \/ \E idp \in IdParams, dg \in BOOLEAN, df \in BOOLEAN : StoryDestroy(idp, dg, df)
    \/ \E idps \in Lists(IdParams), dg \in BOOLEAN, df \in BOOLEAN : StoriesDestroy(idps, dg, df)

UpdateCalls ==
    \/ \E input \in UpdateInputs : StoryUpdate(input)
    \/ \E inputs \in Lists(BulkUpdateInputs) : StoriesUpdate(inputs)

MergeCalls ==
    \/ \E srcps \in Lists(IdParams), destp \in IdParams : StoryMerge(srcps, destp)

MergeSteps ==
    \/ \E fails \in BOOLEAN : MergeStep(fails)
    \/ \E commitErr \in BOOLEAN : TxnEnd(commitErr)

MutationStep ==
    \/ MarkerCalls
    \/ MarkerSteps
    \/ MarkerTagCalls
    \/ MarkerTagSteps
    \/ DestroyCalls
    \/ DestroySteps
    \/ UpdateCalls
    \/ UpdateSteps
    \/ BulkCalls
    \/ BulkSteps
    \/ MergeCalls
    \/ MergeSteps

Next ==
    \/ \E r \in Reqs : StoryCtx(r)
    \/ \E r \in Reqs : RouteStep(r, StartParams, Resolutions, Segments)
    \/ \E r \in Reqs, stored \in BOOLEAN : StreamEnd(r, stored)
    \/ \E r \in Reqs : Finish(r)
    \/ \E r \in Reqs : StaticStep(r)
    \/ \E r \in Reqs, storyHash \in HashParams : VttThumbsByHash(r, storyHash)
    \/ \E r \in Reqs, storyHash \in HashParams : VttSpriteByHash(r, storyHash)
    \/ MutationStep

Spec == Init /\ [][Next]_vars

\* the routes, one request at a time: every route and parameter, no
\* mutation, nothing cached
NextRoutes ==
    \/ StoryCtx(1)
    \/ RouteStep(1, StartParams, Resolutions, Segments)
    \/ StreamEnd(1, FALSE)
    \/ Finish(1)

SpecRoutes == Init /\ [][NextRoutes]_vars

\* the static routes, one request at a time, with nothing, one kind or all
\* of the generated artifacts not generated yet
InitStatic ==
    /\ InitCatalog
    /\ \E missing \in {{}, GeneratedKinds \cup MarkerKinds}
                        \cup {{kind} : kind \in GeneratedKinds \cup MarkerKinds} :
          disk = {path \in AllPaths : path[1] \notin missing}

NextStatic ==
    \/ StoryCtx(1)
    \/ StaticStep(1)
    \/ \E storyHash \in HashParams : VttThumbsByHash(1, storyHash)
    \/ \E storyHash \in HashParams : VttSpriteByHash(1, storyHash)
    \/ Finish(1)

SpecStatic == InitStatic /\ [][NextStatic]_vars

\* the mutations, one kind at a time, with no request running
InitMutations == Init /\ liveTranscode /\ namingAlgo = "oshash"

NextDestroy == DestroyCalls \/ DestroySteps

\* the four mutations that carry a fileDeleter
DeleterLists == {<<Itoa(2)>>, <<Itoa(2), Itoa(1)>>, <<Itoa(1), <<"x">>>>}

NextDeleter ==
    \/ \E idp \in {Itoa(1), <<"x">>} : StoryDestroy(idp, TRUE, FALSE)
    \/ \E idps \in DeleterLists : StoriesDestroy(idps, TRUE, TRUE)
    \/ DestroySteps
    \/ MarkerCalls
    \/ MarkerSteps

SpecDeleter == InitMutations /\ [][NextDeleter]_vars

\* updates that set the story or the timestamp of a marker to the value it
\* has or to another one
PreviewSeconds == {15, 17}

PreviewInputs ==
    {[NoMarkerUpdate EXCEPT !.id = Itoa(1), !.hasStory = hs,
                            !.story = IF hs THEN Itoa(s) ELSE <<>>,
                            !.hasSeconds = hsec, !.seconds = IF hsec THEN sec ELSE 0,
                            !.tagsIncluded = ti] :
        hs \in BOOLEAN, s \in Stories, hsec \in BOOLEAN, sec \in PreviewSeconds,
        ti \in BOOLEAN}

NextMarker ==
    \/ \E input \in PreviewInputs : StoryMarkerUpdate(input)
    \/ \E idp \in MarkerParams : StoryMarkerDestroy(idp)
    \/ MarkerSteps

\* markers are created, retagged and destroyed
NextTags == MarkerTagCalls \/ MarkerTagSteps \/ MarkerSteps

SpecTags == InitMutations /\ [][NextTags]_vars

SpecMarker == InitMutations /\ [][NextMarker]_vars

SpecDestroy == InitMutations /\ [][NextDestroy]_vars

\* list destroys alone, the generated files deleted with the stories
NextDestroyList ==
    \/ \E idps \in Lists(IdParams) : StoriesDestroy(idps, TRUE, FALSE)
    \/ DestroySteps

SpecDestroyList == InitMutations /\ [][NextDestroyList]_vars

NextUpdate == UpdateCalls \/ UpdateSteps

\* story updates of the primary file, of the title and of the cover, one by
\* one and as lists
TitleParams == {"", "n"}

EditInputs ==
    {PrimaryInput(idp, TRUE, pp) : idp \in IdParams, pp \in FileParams}
    \cup {TitleInput(idp, title, cover) :
             idp \in IdParams, title \in TitleParams, cover \in BOOLEAN}

EditListInputs ==
    {PrimaryInput(Itoa(1), TRUE, Itoa(2)), PrimaryInput(Itoa(1), TRUE, Itoa(MaxFiles)),
     TitleInput(Itoa(1), "n", TRUE), TitleInput(Itoa(2), "", FALSE),
     PrimaryInput(<<"x">>, FALSE, <<>>)}

NextEdit ==
    \/ \E input \in EditInputs : StoryUpdate(input)
    \/ \E inputs \in Lists(EditListInputs) : StoriesUpdate(inputs)
    \/ UpdateSteps

SpecEdit == InitMutations /\ [][NextEdit]_vars

\* the mutations that run post hooks of stories
HookLists == {<<Itoa(2)>>, <<Itoa(2), Itoa(1)>>, <<Itoa(1), <<"x">>>>}

NextHooks ==
    \/ \E s \in Stories, hp \in BOOLEAN :
          StoryUpdate(PrimaryInput(Itoa(s), hp, IF hp THEN Itoa(1) ELSE <<>>))
    \/ \E idps \in HookLists \ {<<Itoa(1), <<"x">>>>} :
          StoriesUpdate([i \in 1..Len(idps) |-> PrimaryInput(idps[i], FALSE, <<>>)])
    \/ \E idps \in HookLists, badField \in BOOLEAN : BulkStoryUpdate(idps, badField)
    \/ \E idp \in {Itoa(1), <<"x">>} : StoryDestroy(idp, TRUE, FALSE)
    \/ \E idps \in HookLists : StoriesDestroy(idps, TRUE, TRUE)
    \/ UpdateSteps
    \/ BulkSteps
    \/ DestroySteps

SpecHooks == InitMutations /\ [][NextHooks]_vars

SpecUpdate == InitMutations /\ [][NextUpdate]_vars

NextMerge == MergeCalls \/ MergeSteps

SpecMerge == InitMutations /\ [][NextMerge]_vars

\* stream.mp4 requests running concurrently with StoryDestroy
NextRace ==
    \/ \E r \in Reqs : StoryCtxOk(r)
    \/ \E r \in Reqs : StreamMp4(r, <<>>, "720")
    \/ \E r \in Reqs : StreamEnd(r, FALSE)
    \/ \E r \in Reqs : Finish(r)
    \/ \E s \in Stories, dg \in BOOLEAN : StoryDestroy(Itoa(s), dg, FALSE)
    \/ DestroySteps

SpecRace == Init /\ [][NextRace]_vars

\* one stream.mp4 request running while stories are destroyed, one by one or
\* as a list
NextKill ==
    \/ StoryCtxOk(1)
    \/ StreamMp4(1, <<>>, "720")
    \/ StreamEnd(1, FALSE)
    \/ Finish(1)
    \/ \E s \in Stories : StoryDestroy(Itoa(s), TRUE, FALSE)
    \/ \E idps \in Lists(StoryIdParams) : StoriesDestroy(idps, TRUE, FALSE)
    \/ DestroySteps

SpecKill == Init /\ [][NextKill]_vars

\* concurrent requests for stream.mp4 and for HLS segments
NextDedup ==
    \/ \E r \in Reqs : StoryCtxOk(r)
    \/ \E r \in Reqs, start \in {<<>>, <<"5">>} : StreamMp4(r, start, "720")
    \/ \E r \in Reqs, segment \in Segments : StreamHLSSegment(r, segment, "720")
    \/ \E r \in Reqs, stored \in BOOLEAN : StreamEnd(r, stored)
    \/ \E r \in Reqs : Finish(r)

SpecDedup == Init /\ [][NextDedup]_vars

\* segment requests, one at a time, while primary files are reassigned
NextCache ==
    \/ StoryCtxOk(1)
    \/ StreamHLSSegment(1, "0", "720")
    \/ StreamDASHAudioSegment(1, "0", "720")
    \/ \E stored \in BOOLEAN : StreamEnd(1, stored)
    \/ Finish(1)
    \/ \E s \in Stories : \E f \in OwnedFiles(s) :
          StoryUpdate(PrimaryInput(Itoa(s), TRUE, Itoa(f)))
    \/ \E failAt \in {"none", "update"} : UpdateStep(failAt)
    \/ \E commitErr \in BOOLEAN : TxnEnd(commitErr)
    \/ UpdatePostHooks(0)

SpecCache == Init /\ [][NextCache]_vars

\* ------------------------------------------------------------ properties
VttRoutes == {"vtt/thumbs", "vtt/sprite"}

\* the start form values ParseFloat rejects, and the absent one
UnparsedStarts == {<<>>, <<"x">>, <<"5", "x">>, <<".">>}

TranscodingRoutes ==
    {"stream.mp4", "stream.webm", "stream.mkv", "stream.m3u8", "stream.mpd",
     "stream.m3u8/segment", "stream.mpd/segment_v", "stream.mpd/segment_a"}

SegmentedRoutes ==
    {"stream.m3u8", "stream.mpd", "stream.m3u8/segment", "stream.mpd/segment_v",
     "stream.mpd/segment_a"}

\* the route handler of request r has run
Handled(r) == req[r].pc \in {"done", "streaming"} /\ req[r].route \in TranscodingRoutes

\* C1: in StoryDestroy and StoriesDestroy, storyService.Destroy is invoked
\* for a story only after KillRunningStreams was invoked for that story, so
\* every story of a committed destroy was killed before the commit and before
\* fileDeleter.Commit.
C1_KillBeforeDestroy ==
    mut.op \in DestroyOps =>
        /\ mut.destroyCalled \subseteq mut.killed
        /\ (mut.pc = "destroy" => mut.cur \in mut.killed)
        /\ (mut.pc \in {"committed", "posthooks"} =>
                /\ SeqRange(mut.stories) \subseteq mut.killed
                /\ \A s \in SeqRange(mut.stories) : ~db[s].exists)

C1_Witness ==
    /\ mut.op = "StoriesDestroy"
    /\ mut.pc = "posthooks"
    /\ Cardinality(mut.destroyCalled) = 2
    /\ mut.killed = mut.destroyCalled

\* C2: when the destroy transaction has committed and fileDeleter.Commit is
\* about to remove the story's generated files, no request owns a running
\* transcode stream of a destroyed story.
C2_NoStreamAtCommit ==
    (mut.op \in DestroyOps /\ mut.pc = "committed") =>
        \A q \in Reqs : ~(Owns(q) /\ req[q].story \in SeqRange(mut.stories))

\* C3: a story update that reassigns the primary file has killed the story's
\* running streams before UpdatePartial persists the change.
C3_KillBeforeUpdatePartial ==
    mut.op \in UpdateOps => mut.repointed \subseteq mut.killed

\* C4: StoryMerge has killed the running streams of every source story
\* before the merge transaction commits.
C4_KillBeforeMergeCommit ==
    mut.op = "StoryMerge" => mut.merged \subseteq mut.killed

\* C5: with live transcoding disabled, every request for a manifest or a
\* segment is answered 503 and neither ServeManifest nor ServeSegment is
\* called, so no encoder is started.
C5_DisabledSegmentedUnavailable ==
    \A r \in Reqs :
        (Handled(r) /\ req[r].route \in SegmentedRoutes /\ ~liveTranscode) =>
            /\ req[r].status = StatusServiceUnavailable
            /\ req[r].call = "none"
            /\ ~Owns(r)

C5_Witness ==
    \E r \in Reqs :
        /\ Handled(r)
        /\ req[r].route = "stream.mpd/segment_a"
        /\ ~liveTranscode
        /\ req[r].file = NoFile
        /\ req[r].status = StatusServiceUnavailable

\* C6 as stated: with live transcoding disabled, every transcoding route,
\* stream.mkv included, answers 503 whatever the container and whether or
\* not the story has a primary file.
C6_DisabledEveryRouteUnavailable ==
    \A r \in Reqs :
        (Handled(r) /\ ~liveTranscode) => req[r].status = StatusServiceUnavailable

\* C6 amended: with live transcoding disabled no transcoding route calls the
\* StreamManager; stream.mp4, stream.webm, the manifests and the segments
\* answer 503 whatever the story's primary file; stream.mkv completes empty
\* without a primary file, answers 400 for a container other than Matroska
\* and 503 only for a Matroska primary file.
C6_DisabledShortCircuit ==
    \A r \in Reqs :
        (Handled(r) /\ ~liveTranscode) =>
            /\ req[r].call = "none"
            /\ ~Owns(r)
            /\ req[r].route # "stream.mkv" => req[r].status = StatusServiceUnavailable
            /\ req[r].route = "stream.mkv" =>
                  req[r].status = IF req[r].file = NoFile THEN NoStatus
                                  ELSE IF req[r].container # Matroska THEN StatusBadRequest
                                  ELSE StatusServiceUnavailable

C6_Witness ==
    \E r \in Reqs :
        /\ Handled(r)
        /\ ~liveTranscode
        /\ req[r].route = "stream.mkv"
        /\ FileFormat(req[r].file) = Matroska
        /\ req[r].status = StatusServiceUnavailable

\* C7: stream.mkv for a primary file whose container is not Matroska, or
\* whose container could not be detected, answers 400 without calling
\* ServeTranscode; ServeTranscode is called with stream type MKV only for a
\* Matroska file.
C7_MKVOnlyForMatroska ==
    \A r \in Reqs :
        Handled(r) =>
            /\ (/\ req[r].route = "stream.mkv"
                /\ req[r].file # NoFile
                /\ (FileFormat(req[r].file) # Matroska \/ req[r].container # Matroska)) =>
                    (req[r].status = StatusBadRequest /\ req[r].call = "none" /\ ~Owns(r))
            /\ (req[r].call = "ServeTranscode" /\ req[r].opts.type = StreamTypeMKV) =>
                    (FileFormat(req[r].opts.file) = Matroska /\ req[r].container = Matroska)

C7_Witness ==
    \E r \in Reqs :
        /\ Handled(r)
        /\ req[r].route = "stream.mkv"
        /\ FileFormat(req[r].file) = Mp4
        /\ liveTranscode
        /\ req[r].status = StatusBadRequest

\* C8: with live transcoding enabled, a transcoding route for a story
\* without primary file writes nothing (no status, in particular not 500)
\* and calls none of ServeTranscode, ServeManifest, ServeSegment.
C8_NoPrimaryFileEmpty ==
    \A r \in Reqs :
        (Handled(r) /\ liveTranscode /\ req[r].file = NoFile) =>
            /\ req[r].status = NoStatus
            /\ req[r].call = "none"
            /\ ~Owns(r)

C8_Witness ==
    \E r \in Reqs :
        /\ Handled(r)
        /\ liveTranscode
        /\ req[r].file = NoFile
        /\ req[r].route = "stream.mpd"
        /\ req[r].status = NoStatus

C10_SegmentHashIsCurrent ==
    \A r \in Reqs :
        (Handled(r) /\ req[r].call = "ServeSegment") =>
            /\ req[r].opts.hash = <<namingAlgo, req[r].file>>
            /\ req[r].opts.file = req[r].file
            /\ req[r].hit \in {NoFile, req[r].file}

C10_Witness ==
    \E r \in Reqs, e \in cache :
        /\ req[r].pc = "streaming"
        /\ req[r].call = "ServeSegment"
        /\ req[r].file # e.file
        /\ FileOwner(e.file) = req[r].story
        /\ db[req[r].story].primary = req[r].file
        /\ req[r].opts.type = e.type
        /\ req[r].opts.seg = e.seg
        /\ req[r].opts.res = e.res

\* C11: the outcome of KillRunningStreams never blocks or fails a destroy:
\* every story that StoryDestroy or StoriesDestroy killed is handed to
\* storyService.Destroy next, with no error raised by the kill, whether the
\* story had a running stream or not and whether its encoders died or not.
C11_KillNeverBlocksDestroy ==
    mut.op \in DestroyOps =>
        /\ (mut.killed \ mut.destroyCalled) \subseteq (IF mut.pc = "destroy" THEN {mut.cur} ELSE {})
        /\ mut.pc = "destroy" => ~mut.err
        /\ mut.killFailed \subseteq mut.killed

C11_Witness ==
    /\ mut.op = "StoryDestroy"
    /\ mut.pc = "txnend"
    /\ ~mut.err
    /\ mut.cur \in mut.killFailed
    /\ mut.cur \in mut.destroyCalled
    /\ \E q \in Reqs : Owns(q) /\ req[q].story = mut.cur

\* C12: StoryCtx answers 400 for a storyId that is not an integer and 404
\* for an integer that names no story or a story whose primary file fails to
\* load, and in those cases the route handler is never invoked; the handler
\* is invoked only with a story in the request context.
C12_StoryCtxRejects ==
    \A r \in Reqs :
        req[r].pc # "idle" =>
            LET invoked == req[r].route # "StoryCtx"
                names == {Itoa(s) : s \in {x \in Stories : db[x].exists}}
            IN  /\ req[r].param \in {<<"x">>, <<>>} =>
                      (req[r].status = StatusBadRequest /\ ~invoked)
                /\ (req[r].param \in PathIdParams \ ({<<"x">>, <<>>} \cup names) \/ req[r].loadErr) =>
                      (req[r].status = StatusNotFound /\ ~invoked)
                /\ invoked => (req[r].story # NoStory /\ req[r].param = Itoa(req[r].story))
                /\ ~invoked => (req[r].story = NoStory /\ req[r].call = "none")

C12_Witness ==
    \E r \in Reqs :
        /\ req[r].pc = "done"
        /\ req[r].route = "StoryCtx"
        /\ req[r].param = Itoa(1)
        /\ req[r].loadErr
        /\ req[r].status = StatusNotFound

MarkerRoutes == {"story_marker/stream", "story_marker/preview", "story_marker/screenshot"}

StaticArtifactRoutes == {"preview", "webp", "vtt/thumbs", "vtt/sprite", "interactive_heatmap"}

\* the static handler of request r has run
Answered(r, routes) == req[r].pc = "done" /\ req[r].route \in routes

\* C13: a marker route answers 404 when the lookup found no marker with the
\* requested id, 500 when the lookup failed, and writes nothing when the
\* lookup was cancelled; it serves a file or the placeholder only for the
\* marker it found.
C13_MarkerRouteErrors ==
    \A r \in Reqs :
        Answered(r, MarkerRoutes) =>
            LET a == req[r].args
                w == req[r].resp
                known == {Itoa(m) : m \in {x \in Markers : markers[x].exists}}
            IN  /\ (a.lookup = "ok" /\ a.id \notin known) =>
                      (w.status = StatusNotFound /\ w.served = "")
                /\ a.lookup = "error" => (w.status = StatusInternalServerError /\ w.served = "")
                /\ a.lookup = "cancelled" => w = NoResp
                /\ w.served # "" =>
                      (a.lookup = "ok" /\ w.marker \in Markers /\ Itoa(w.marker) = a.id)

C13_Witness ==
    \E r \in Reqs :
        /\ Answered(r, {"story_marker/screenshot"})
        /\ req[r].args.lookup = "ok"
        /\ req[r].args.id = <<"x">>
        /\ req[r].status = StatusNotFound

\* C14: Preview, Webp, VttThumbs, VttSprite and InteractiveHeatmap never
\* call the StreamManager and never answer 503: whether live transcoding is
\* enabled or not they serve the path made of the artifact kind and the
\* story's hash under the configured naming algorithm.
C14_StaticWithoutStreamManager ==
    \A r \in Reqs :
        (Answered(r, StaticArtifactRoutes) /\ req[r].story # NoStory) =>
            LET w == req[r].resp
                kind == CASE req[r].route = "preview" -> "preview.mp4"
                          [] req[r].route = "webp" -> "preview.webp"
                          [] req[r].route = "vtt/thumbs" -> "thumbs.vtt"
                          [] req[r].route = "vtt/sprite" -> "sprite.jpg"
                          [] OTHER -> "heatmap.png"
                hash == IF req[r].file = NoFile THEN <<>> ELSE <<namingAlgo, req[r].file>>
            IN  /\ req[r].call = "none"
                /\ ~Owns(r)
                /\ w.path = <<kind, hash, 0>>
                /\ w.status # StatusServiceUnavailable
                /\ w.served = "file" <=> w.path \in disk

C14_Witness ==
    \E r \in Reqs :
        /\ Answered(r, {"preview"})
        /\ ~liveTranscode
        /\ req[r].resp.served = "file"
        /\ req[r].resp.path = <<"preview.mp4", <<namingAlgo, req[r].file>>, 0>>

\* C15: vtt/thumbs and vtt/sprite serve the generated file when it is on
\* disk and the placeholder image when it is not.
C15_SidecarFileOrPlaceholder ==
    \A r \in Reqs :
        Answered(r, VttRoutes) =>
            req[r].resp.served = IF req[r].resp.path \in disk THEN "file" ELSE "placeholder"

C17_SegmentOnlyForSegmented ==
    \A r \in Reqs :
        Handled(r) =>
            LET o == req[r].opts
                unparsed == UnparsedStarts
            IN  /\ req[r].call = "ServeSegment" =>
                      /\ o.type \in {StreamTypeHLS, StreamTypeDASHVideo, StreamTypeDASHAudio}
                      /\ o.seg \in Segments
                      /\ o.start = 0
                /\ req[r].call = "ServeTranscode" =>
                      /\ o.type \in {StreamTypeMP4, StreamTypeWEBM, StreamTypeMKV}
                      /\ o.seg = ""
                      /\ req[r].args.start \in unparsed => o.start = 0
                      /\ req[r].args.start = <<"1", ".", "5">> => o.start = 15
                /\ (/\ req[r].route \in {"stream.mp4", "stream.webm"}
                    /\ liveTranscode
                    /\ req[r].file # NoFile) => req[r].call = "ServeTranscode"

C17_Witness ==
    \E r \in Reqs :
        /\ Handled(r)
        /\ req[r].call = "ServeTranscode"
        /\ req[r].args.start = <<"5", "x">>
        /\ req[r].opts.start = 0
        /\ req[r].opts.type = StreamTypeWEBM

\* C18: StoryDestroy, StoriesDestroy, StoryMarkerUpdate and
\* StoryMarkerDestroy, once their ids are parsed, call exactly one of
\* fileDeleter.Commit and fileDeleter.Rollback before they return: Commit
\* only after the transaction succeeded, Rollback only after it failed, and
\* then the mutation returns an error and every marked file is still on disk.
C18_CommitXorRollback ==
    mut.op \in FileDeleterOps =>
        /\ mut.commits + mut.rollbacks <= 1
        /\ mut.commits = 1 => (mut.txnOk /\ mut.parsed)
        /\ mut.rollbacks = 1 =>
              /\ ~mut.txnOk
              /\ mut.parsed
              /\ mut.result = "error"
              /\ mut.removed = {}
              /\ mut.spared \subseteq disk
        /\ (mut.pc = "idle" /\ mut.parsed) =>
              /\ mut.commits + mut.rollbacks = 1
              /\ mut.txnOk <=> mut.commits = 1
              /\ mut.txnOk <=> mut.result = "ok"
        /\ ~mut.parsed => mut.commits + mut.rollbacks = 0

C18_Witness ==
    /\ mut.op = "StoryMarkerUpdate"
    /\ mut.pc = "idle"
    /\ mut.rollbacks = 1
    /\ mut.commits = 0
    /\ mut.spared # {}
    /\ mut.spared \subseteq disk

\* the mutations of stories that run post hooks
HookOps == HookedUpdateOps \cup DestroyOps

\* C19 as stated: a StoryUpdate, StoriesUpdate, BulkStoryUpdate, StoryDestroy
\* or StoriesDestroy that returns an error has executed no post hook.
C19_FailedRunsNoHook ==
    (mut.op \in HookOps /\ mut.result = "error") => mut.hooked = <<>>

\* C19 amended: post hooks run only after the transaction has succeeded and,
\* for the destroy mutations, only after fileDeleter.Commit; a mutation whose
\* input does not parse or whose transaction fails runs none, a destroy that
\* returns an error runs none, and the step that ends a successful
\* StoriesDestroy has run one StoryDestroyPost hook per id, in input order.
C19_HooksAfterTxn ==
    /\ [](mut.op \in HookOps =>
            /\ mut.hooked # <<>> => (mut.parsed /\ mut.txnOk)
            /\ (mut.op \in DestroyOps /\ mut.hooked # <<>>) =>
                  (mut.commits = 1 /\ mut.result = "ok")
            /\ (mut.op \in DestroyOps /\ mut.result = "error") => mut.hooked = <<>>
            /\ (mut.result = "ok") => mut.hooked = mut.stories)
    /\ [][(mut.op = "StoriesDestroy" /\ mut.pc # "idle" /\ mut'.pc = "idle"
              /\ mut'.result = "ok") =>
            (mut'.hooked = mut.ids /\ mut.commits = 1)]_vars

C19_Witness ==
    /\ mut.op = "StoriesDestroy"
    /\ mut.result = "ok"
    /\ mut.commits = 1
    /\ mut.hooked = <<2, 1>>

\* C20: StoriesDestroy is all-or-nothing. The stories looked up, killed and
\* handed to Destroy are always a prefix of the id list that ends at the id
\* being processed; the transaction succeeds only when every id was found
\* and destroyed; a StoriesDestroy that fails in its transaction returns an
\* error, leaves every story of the list in the database and removes no
\* file; and no step of a StoriesDestroy that has not succeeded changes the
\* database or the disk.
C20_StoriesDestroyAllOrNothing ==
    /\ [](mut.op = "StoriesDestroy" =>
            /\ mut.pc # "idle" =>
                  /\ Len(mut.stories) <= Len(mut.ids)
                  /\ mut.stories = SubSeq(mut.ids, 1, Len(mut.stories))
                  /\ Len(mut.stories) \in {mut.i - 1, mut.i}
            /\ mut.killed \cup mut.killFailed \subseteq SeqRange(mut.stories)
            /\ mut.destroyCalled \subseteq SeqRange(mut.stories)
            /\ (mut.pc # "idle" /\ mut.txnOk) =>
                  /\ mut.stories = mut.ids
                  /\ mut.destroyCalled = SeqRange(mut.ids)
                  /\ \A s \in SeqRange(mut.ids) : ~db[s].exists
            /\ (mut.pc = "rollback" \/ (mut.parsed /\ mut.result = "error")) =>
                  /\ ~mut.txnOk
                  /\ txdb = db
                  /\ \A s \in SeqRange(mut.stories) : db[s].exists
                  /\ mut.removed = {}
                  /\ mut.hooked = <<>>
            /\ (mut.result = "ok") <=> (mut.pc = "idle" /\ mut.txnOk))
    /\ [][(mut.op = "StoriesDestroy" /\ mut.pc # "idle" /\ ~mut'.txnOk) =>
            (db' = db /\ disk' = disk)]_vars

\* the first story was destroyed inside the transaction, the second id
\* refers to no story, and the transaction has been rolled back
C20_Witness ==
    /\ mut.op = "StoriesDestroy"
    /\ mut.pc = "rollback"
    /\ Len(mut.ids) = 2
    /\ mut.i = 2
    /\ Find(mut.ids[2]) = NoStory
    /\ mut.destroyCalled = {mut.ids[1]}
    /\ db[mut.ids[1]].exists

\* a request whose stream was killed: it was handed to the StreamManager and
\* its response has ended
Killed(q) == req[q].pc = "done" /\ req[q].call # "none"

\* C21: the kill of StoryDestroy and StoriesDestroy is not undone by a
\* failure. A destroy that fails after its kill has its transaction rolled
\* back, removes no file and leaves its stories in the database; no step of
\* the mutation other than the kill changes a request, the rollback
\* included; and a killed stream never runs again.
C21_KillNotUndone ==
    /\ [](mut.op \in DestroyOps =>
            ((mut.pc = "rollback" \/ (mut.parsed /\ mut.result = "error")) =>
                /\ txdb = db
                /\ \A s \in SeqRange(mut.stories) : db[s].exists
                /\ mut.removed = {}
                /\ mut.commits = 0))
    /\ [][(mut.op \in DestroyOps /\ mut' # mut /\ mut.pc \notin {"idle", "kill"}) =>
            req' = req]_vars
    /\ [][(mut.op \in DestroyOps /\ mut' # mut /\ ~mut'.txnOk) =>
            (db' = db /\ disk' = disk)]_vars
    /\ [][\A q \in Reqs : Killed(q) => req'[q].pc \in {"done", "idle"}]_vars

\* the stream of the first story of a list was killed, a later story failed,
\* and the mutation has returned its error
C21_Witness ==
    /\ mut.op = "StoriesDestroy"
    /\ mut.result = "error"
    /\ mut.rollbacks = 1
    /\ Len(mut.stories) = 2
    /\ mut.destroyCalled = SeqRange(mut.stories)
    /\ \E q \in Reqs : Killed(q) /\ req[q].story = mut.stories[1]
    /\ \A s \in SeqRange(mut.stories) : db[s].exists

\* the primary file of every story of a database is one of the story's files
PrimaryIsOwnFile(d) ==
    \A s \in Stories :
        (d[s].exists /\ d[s].primary # NoFile) => d[s].primary \in d[s].files

\* C22: storyUpdate persists a new primary file only when it is one of the
\* story's files: the step that handles an input whose primary file id is
\* not among the files of its story fails and writes nothing, and in every
\* state, inside and outside the transaction, the primary file of a story is
\* one of its own files.
C22_PrimaryFileIsOwnFile ==
    /\ [](PrimaryIsOwnFile(db) /\ PrimaryIsOwnFile(txdb))
    /\ [][(mut.op \in UpdateOps /\ mut.pc = "update" /\ mut' # mut) =>
            LET input == mut.inputs[mut.i]
                a == Atoi(input.id)
                p == Atoi(input.primary)
            IN  (/\ input.hasPrimary
                 /\ ~a.err
                 /\ Find(a.val) # NoStory
                 /\ (p.err \/ p.val \notin txdb[a.val].files)) =>
                    (mut'.err /\ txdb' = txdb /\ mut'.repointed = mut.repointed)]_vars

\* a list update has given its first story another of its files as primary
\* file and failed on a second input that names a file of another story
C22_Witness ==
    /\ mut.op = "StoriesUpdate"
    /\ mut.pc = "txnend"
    /\ mut.err
    /\ mut.i = 2
    /\ mut.repointed # {}
    /\ mut.inputs[2].hasPrimary
    /\ LET a == Atoi(mut.inputs[2].id)
           p == Atoi(mut.inputs[2].primary)
       IN  /\ Find(a.val) # NoStory
           /\ p.val \in Files \ txdb[a.val].files

\* C23: the stored tag set of a marker never contains the marker's primary
\* tag, whatever StoryMarkerCreate and StoryMarkerUpdate calls came before.
C23_TagsExcludePrimaryTag ==
    \A m \in Markers : markers[m].exists => markers[m].primaryTag \notin markers[m].tags

TitleMustBeSet == "title must be set if story has no files"

\* C24: the storyUpdate step that handles an input with a non-integer or
\* unknown story id, or an input that sets the title to the empty string on
\* a story without files, fails and writes nothing: the database inside the
\* transaction stays as it was and neither UpdatePartial nor UpdateCover is
\* called; the error of the empty title is "title must be set if story has
\* no files" unless a repository call failed first; and a mutation that
\* ended on one of these errors returns an error and runs no hook.
C24_EmptyTitleRejected ==
    /\ [][(mut.op \in UpdateOps /\ mut.pc = "update" /\ mut' # mut) =>
            LET input == mut.inputs[mut.i]
                a == Atoi(input.id)
                s == IF a.err THEN NoStory ELSE Find(a.val)
                nothingWritten == mut'.err /\ txdb' = txdb /\ mut'.calls = mut.calls
            IN  /\ a.err => (nothingWritten /\ mut'.msg = "converting id")
                /\ (~a.err /\ s = NoStory) =>
                      (nothingWritten /\ mut'.msg \in {"story not found", "repository"})
                /\ (/\ s # NoStory
                    /\ ~input.hasPrimary
                    /\ input.hasTitle
                    /\ input.title = ""
                    /\ txdb[s].files = {}) =>
                      (nothingWritten /\ mut'.msg \in {TitleMustBeSet, "repository"})]_vars
    /\ [](mut.msg \in {TitleMustBeSet, "converting id", "story not found"} =>
            (mut.op \in UpdateOps /\ mut.result # "ok" /\ mut.hooked = <<>> /\ ~mut.txnOk))

\* an update has returned the error of the empty title for a story that has
\* no files, and the story has its title
C24_Witness ==
    /\ mut.op = "StoryUpdate"
    /\ mut.result = "error"
    /\ mut.msg = TitleMustBeSet
    /\ mut.calls = {}
    /\ db = txdb
    /\ \E s \in Stories : db[s].exists /\ db[s].files = {} /\ db[s].title = "t"

\* C25: StoriesUpdate applies its inputs in one transaction. The stories
\* updated so far are those of the inputs handled so far, in input order; no
\* step of a StoriesUpdate whose transaction has not succeeded changes the
\* database; one that failed in its transaction returns an error with the
\* database as it was and has run no hook; and one that returns its list has
\* one story per input, in input order.
C25_StoriesUpdateAllOrNothing ==
    /\ [](mut.op = "StoriesUpdate" =>
            /\ mut.pc # "idle" =>
                  /\ Len(mut.stories) <= Len(mut.inputs)
                  /\ Len(mut.stories) = mut.i - 1
                  /\ \A k \in 1..Len(mut.stories) :
                        mut.stories[k] = Atoi(mut.inputs[k].id).val
            /\ mut.err => ~mut.txnOk
            /\ (mut.pc = "idle" /\ ~mut.txnOk) =>
                  (mut.result = "error" /\ mut.hooked = <<>> /\ db = txdb)
            /\ mut.result = "ok" => (mut.txnOk /\ mut.hooked = mut.stories))
    /\ [][(mut.op = "StoriesUpdate" /\ mut' # mut /\ ~mut'.txnOk) => db' = db]_vars
    /\ [][(mut.op = "StoriesUpdate" /\ mut.pc # "idle" /\ mut'.result = "ok") =>
            /\ Len(mut'.stories) = Len(mut.inputs)
            /\ \A k \in 1..Len(mut.inputs) :
                  mut'.stories[k] = Atoi(mut.inputs[k].id).val]_vars

\* the first input of a list was applied inside the transaction, a later one
\* named a file of another story, and the list update has returned its error
C25_Witness ==
    /\ mut.op = "StoriesUpdate"
    /\ mut.result = "error"
    /\ mut.msg = "file not associated with story"
    /\ Len(mut.stories) = 1
    /\ mut.repointed # {}
    /\ \A s \in Stories : db[s] = StoryRow(db[s].files)

\* the preview files of a marker of story s at a whole second
PreviewFiles(s, second) ==
    IF txdb[s].primary = NoFile THEN {}
    ELSE {<<kind, <<namingAlgo, txdb[s].primary>>, second>> : kind \in MarkerKinds}

\* C26: the body of StoryMarkerUpdate marks for deletion the preview files
\* of the marker's original story at the original marker's whole second,
\* and nothing else, exactly when the update changed the marker's story or
\* its seconds and the body got as far as the marking; an update that
\* changes neither marks nothing; and files leave the disk only in
\* fileDeleter.Commit, after the transaction has committed.
C26_MarkerFilesMarkedOnChange ==
    /\ [][(mut.op = "StoryMarkerUpdate" /\ mut.pc = "marker" /\ mut' # mut) =>
            LET m == mut.ids[1]
                found == m \in Markers /\ txmarkers[m].exists
                old == txmarkers[m]
                new == txmarkers'[m]
                changed == old.story # new.story \/ old.seconds # new.seconds
                files == PreviewFiles(old.story, old.seconds \div 10)
            IN  /\ ~found => (mut'.err /\ marked' = marked /\ txmarkers' = txmarkers)
                /\ found =>
                      /\ marked' \in {marked, marked \cup files}
                      /\ ~changed => marked' = marked
                      /\ (changed /\ ~mut'.err) => marked' = marked \cup files
                      /\ ~mut'.err =>
                            (new.story = (IF mut.inputs[1].hasStory
                                          THEN Atoi(mut.inputs[1].story).val ELSE old.story)
                             /\ new.seconds = (IF mut.inputs[1].hasSeconds
                                               THEN mut.inputs[1].seconds ELSE old.seconds))]_vars
    /\ [][(mut.op = "StoryMarkerUpdate" /\ disk' # disk) =>
            (mut.pc = "committed" /\ mut.txnOk /\ disk' = disk \ marked)]_vars
    /\ [](mut.op = "StoryMarkerUpdate" =>
            /\ ~mut.txnOk => mut.removed = {}
            /\ mut.pc \in {"idle", "marker"} => marked = {})

\* the timestamp of marker 1 was moved within its second: its preview files
\* at that second are marked and still on disk, the transaction not yet ended
C26_Witness ==
    /\ mut.op = "StoryMarkerUpdate"
    /\ mut.pc = "txnend"
    /\ ~mut.err
    /\ txmarkers[1].seconds = 17
    /\ markers[1].seconds = 15
    /\ txmarkers[1].story = markers[1].story
    /\ marked = {<<kind, <<namingAlgo, db[markers[1].story].primary>>, 1>> : kind \in MarkerKinds}
    /\ marked \subseteq disk
====
